---- MODULE Spec2Model ----
(***************************************************************************)
(* A model of the scrim bot of src/main.py: the registration reconciler    *)
(* (get_all_reacted_ids, sync_roles), the voice reconciler                 *)
(* (update_scrim_vc_roles), the session lifecycle handlers (create,        *)
(* delete, cancel, on_scheduled_event_update, on_raw_message_delete) and   *)
(* the one-minute poll check_events.                                       *)
(*                                                                         *)
(* The bot runs on one asyncio loop: a handler runs without interruption   *)
(* from one await to the next, and other handlers run only while it is     *)
(* suspended in an await.  Every action below is one such atomic block.    *)
(***************************************************************************)
EXTENDS Integers, FiniteSets, Sequences, TLC

\* ---------------------------------------------------------------- bounds
MaxUsers  == 3      \* human users 1..MaxUsers
MaxMsgs   == 2      \* message ids 1..MaxMsgs of the registration channel
MaxEvents == 3      \* scheduled-event ids 1..MaxEvents

BotUser  == 0
Users    == 1..MaxUsers
Bots     == {BotUser}
Everyone == Users \cup Bots
MsgIds   == 1..MaxMsgs
EventIds == 1..MaxEvents
NoUser   == -1
NoMsg   == 0

VARIABLES
    \* the guild and the registration channel (Discord's side)
    members,            \* users that are members of the guild
    reactions,          \* [MsgIds -> SUBSET Everyone]: holders of the marker
    msgs,               \* messages that exist in the registration channel
    registered,         \* holders of the role ROLE_ID
    \* the bot's persisted and global state
    data,               \* message_ids.json: str(event id) -> message id
    scrim_active,
    manually_deleting,
    \* handlers in flight
    sync,               \* [Callers -> frame of get_all_reacted_ids + sync_roles]
    ready,              \* on_ready: pc and (observation) the role holders
                        \* when the current run began, and whether the run
                        \* began right after a completed run
    \* observations (history, not program state)
    healed,             \* message ids a completed pass found missing
    refetched,          \* healed ids that a later pass fetched again
    \* voice
    voice,              \* [Everyone -> Places]: the voice channel a member is in
    guild_roles,        \* which of the two voice roles exist in the guild
    active,             \* holders of the role ACTIVE_ROLE_ID
    spectator,          \* holders of the role SPECTATOR_ROLE_ID
    vc,                 \* [VcCallers -> frame of update_scrim_vc_roles]
    \* the scheduled events (Discord's side) and the gateway
    evStatus,           \* [EventIds -> status]; "none": no such event yet
    notifs,             \* scheduled-event updates not yet dispatched
    msgdel,             \* message deletions not yet dispatched
    nextMsg,            \* the id the next message of the channel gets
    \* more of the bot's persisted state
    stats,              \* stats.json: str(user id) -> {registered, attended}
    \* more handlers in flight
    osu,                \* [Slots -> frame of on_scheduled_event_update]
    del,                \* frame of the command delete
    can,                \* frame of the command cancel
    cre,                \* frame of the command create
    mdl,                \* frame of on_raw_message_delete
    upd,                \* frame of the command event update
    ops,                \* commands and outside events still to come
    \* observations
    handled,            \* the notifications on_scheduled_event_update got,
                        \* each with the guards it saw and what it did
    created,            \* the events on_scheduled_event_update created
    rekeyed,            \* the events it re-keyed a signup message to
    serial,             \* the map had every handler applied its update to
                        \* the map as it was when the handler saved
    \* the one-minute poll
    now,                \* the clock, in seconds
    start_time,         \* [EventIds -> seconds]: event.start_time
    warned_events,      \* the global set of line 44
    warnings,           \* [EventIds -> Nat]: 30-minute warnings posted
    ce,                 \* frame of check_events
    moved,              \* (observation) the events that were rescheduled
    \* the reaction handlers
    rxn,                \* reaction events not yet dispatched
    radd,               \* frame of on_raw_reaction_add
    rrem                \* frame of on_raw_reaction_remove

guildVars == <<members, reactions, msgs>>
botVars   == <<data, scrim_active, manually_deleting>>
obsVars   == <<healed, refetched>>
regVars   == <<registered, sync, ready, healed, refetched>>
voiceEnv  == <<voice, guild_roles>>
voiceVars == <<voice, guild_roles, active, spectator, vc>>
schedVars == <<evStatus, notifs>>
cmdVars   == <<osu, del, can, cre, mdl, upd>>
tickVars  == <<now, start_time, warned_events, warnings, ce, moved>>
reactVars == <<rxn, radd, rrem>>
lifeRest  == <<notifs, msgdel, nextMsg, stats, osu, del, can, cre, mdl, upd,
               handled, created, rekeyed, serial>>
lifeVars  == <<evStatus, notifs, msgdel, nextMsg, stats, osu, del, can, cre,
               mdl, upd, ops, handled, created, rekeyed, serial, tickVars,
               reactVars>>
vars == <<members, reactions, msgs, registered, data, scrim_active,
          manually_deleting, sync, ready, healed, refetched,
          voice, guild_roles, active, spectator, vc,
          evStatus, notifs, msgdel, nextMsg, stats, osu, del, can, cre, mdl,
          upd, ops, handled, created, rekeyed, serial,
          now, start_time, warned_events, warnings, ce, moved,
          rxn, radd, rrem>>

\* ------------------------------------------------------------ file helpers
\* str(event.id): the keys of message_ids.json are strings, the values ints
Str(n) == <<"str", n>>

Range(f) == {f[k] : k \in DOMAIN f}

\* get_all_message_ids(data): set(data.values())
get_all_message_ids(d) == Range(d)

\* del data[k]
DictDel(d, k) == [x \in DOMAIN d \ {k} |-> d[x]]

\* data[k] = v
DictPut(d, k, v) == [x \in DOMAIN d \cup {k} |-> IF x = k THEN v ELSE d[x]]

EmptyDict == [x \in {} |-> 0]

\* --------------------------------------------------- registration reconciler
Callers == {"on_ready", "delete", "cancel", "on_raw_message_delete", "event"}

\* the frame of one get_all_reacted_ids + sync_roles call
\*   pc   "idle" | "fetch" (loop of get_all_reacted_ids) | "add" | "remove"
\*        (the two loops of sync_roles) | "done" | "raised"
\*   todo the elements its current loop has not visited yet
\*   msg  the message fetch_message returned (line 144) and whose r.users()
\*        (line 147) is awaited
\*   cur  the member whose add_roles call (line 164) is awaited
\*   exc  the call that raised ("get_all_reacted_ids" for a call of its
\*        loop), excUser the member it was made for
\*   then_sync  whether the caller passes the result on to sync_roles
\*   called (observation) whether the pass has called add_roles or
\*        remove_roles
SyncIdle == [pc |-> "idle", message_ids |-> {}, todo |-> {},
             reacted_ids |-> {}, msg |-> NoMsg, cur |-> NoUser,
             exc |-> "none", excUser |-> NoUser,
             then_sync |-> TRUE, called |-> FALSE]

\* line 148: if not user.bot
NotBot(u) == u \notin Bots

\* lines 145-149: the non-bot users holding the marker on message m
ReactedUsers(m) == {u \in reactions[m] : NotBot(u)}

NeedsRole_always(u) == u \in members

\* line 163: member and role not in member.roles
NeedsRole(u) == u \in members /\ u \notin registered

IsStale_inverted(u, reacted_ids) == u \in reacted_ids

\* line 166: member.id not in reacted_ids
IsStale(u, reacted_ids) == u \notin reacted_ids

\* a loop that has nothing left runs on, without an await, into the code
\* after it: get_all_reacted_ids returns into the first loop of sync_roles
\* (line 161), which runs into the second over role.members (line 165,
\* todo keeps the members line 166 selects, and the first remove_roles call
\* is made), which returns
SyncRunOn(s, role_members) ==
    LET a == IF s.pc = "fetch" /\ s.todo = {} /\ s.msg = NoMsg
             THEN IF s.then_sync
                  THEN [s EXCEPT !.pc = "add", !.todo = s.reacted_ids]
                  ELSE [s EXCEPT !.pc = "done"]
             ELSE s
        b == IF a.pc = "add" /\ a.todo = {} /\ a.cur = NoUser
             THEN LET stale == {u \in role_members :
                                  IsStale(u, a.reacted_ids)}
                  IN [a EXCEPT !.pc = "remove", !.todo = stale,
                               !.called = @ \/ stale # {}]
             ELSE a
    IN IF b.pc = "remove" /\ b.todo = {} THEN [b EXCEPT !.pc = "done"] ELSE b

\* the frames the pass may be in at its next await.  In the first loop of
\* sync_roles line 163 is evaluated for each member in turn, in the order
\* of the set, and no await is made for a member that needs no role: the
\* block skips some of those and ends with the call add_roles(u) for a
\* member u that needs the role, or skips all of them and runs on
SyncSteps(s, role_members) ==
    LET r == SyncRunOn(s, role_members) IN
    IF r.pc = "add" /\ r.cur = NoUser
    THEN LET skip == {u \in r.todo : ~NeedsRole(u)}
             need == r.todo \ skip
         IN IF need = {}
            THEN {SyncRunOn([r EXCEPT !.todo = {}], role_members)}
            ELSE {[r EXCEPT !.todo = @ \ (S \cup {u}), !.cur = u,
                            !.called = TRUE] :
                     u \in need, S \in SUBSET skip}
    ELSE {r}

\* the call get_all_reacted_ids(channel, message_ids); sync_roles(...)
SyncEnter(message_ids) ==
    SyncRunOn([SyncIdle EXCEPT !.pc = "fetch", !.message_ids = message_ids,
                               !.todo = message_ids], registered)

\* the call get_all_reacted_ids(channel, message_ids) alone (line 729)
FetchEnter(message_ids) ==
    SyncRunOn([SyncIdle EXCEPT !.pc = "fetch", !.message_ids = message_ids,
                               !.todo = message_ids, !.then_sync = FALSE],
              registered)

SyncRaise(s, call, u) ==
    [s EXCEPT !.pc = "raised", !.exc = call, !.excUser = u,
              !.msg = NoMsg, !.cur = NoUser,
              !.called = @ \/ call \in {"add_roles", "remove_roles"}]

\* one await of the loop of get_all_reacted_ids (lines 142-152):
\* fetch_message(msg_id) is answered (line 144) and, when the message has
\* the marker reaction, r.users() is called; or r.users() is answered
\* (lines 147-149)
get_all_reacted_ids(c) ==
    /\ sync[c].pc = "fetch"
    /\ LET s == sync[c] IN
       IF s.msg = NoMsg
       THEN \E m \in s.todo :
              LET t == [s EXCEPT !.todo = @ \ {m}] IN
              /\ \/ /\ m \in msgs /\ reactions[m] # {}     \* fetched
                    /\ sync' = [sync EXCEPT ![c] = [t EXCEPT !.msg = m]]
                 \/ /\ m \in msgs /\ reactions[m] = {}     \* no marker on it
                    /\ \E f \in SyncSteps(t, registered) :
                         sync' = [sync EXCEPT ![c] = f]
                 \/ /\ m \notin msgs                       \* discord.NotFound
                    /\ \E f \in SyncSteps(
                              [t EXCEPT !.message_ids = @ \ {m}], registered) :
                         sync' = [sync EXCEPT ![c] = f]
                 \/ sync' = [sync EXCEPT ![c] =       \* any other error
                                SyncRaise(t, "get_all_reacted_ids", NoUser)]
              /\ refetched' = IF m \in healed THEN refetched \cup {m}
                                              ELSE refetched
       ELSE LET m == s.msg
                t == [s EXCEPT !.msg = NoMsg] IN
            /\ \/ /\ m \in msgs                    \* the holders are listed
                  /\ \E f \in SyncSteps(
                            [t EXCEPT !.reacted_ids = @ \cup ReactedUsers(m)],
                            registered) :
                       sync' = [sync EXCEPT ![c] = f]
               \/ /\ m \notin msgs                 \* discord.NotFound
                  /\ \E f \in SyncSteps(
                            [t EXCEPT !.message_ids = @ \ {m}], registered) :
                       sync' = [sync EXCEPT ![c] = f]
               \/ sync' = [sync EXCEPT ![c] =         \* any other error
                              SyncRaise(t, "get_all_reacted_ids", NoUser)]
            /\ UNCHANGED refetched
    /\ UNCHANGED <<lifeVars, guildVars, registered, botVars, ready, healed, voiceVars>>

\* add_roles (line 164) is answered: the member has the role, and the loop
\* goes on to its next await; or the call raised
sync_roles_add(c) ==
    /\ sync[c].pc = "add"
    /\ sync[c].cur # NoUser
    /\ LET u == sync[c].cur
           s == [sync[c] EXCEPT !.cur = NoUser] IN
       \/ /\ u \in members                        \* add_roles succeeds
          /\ registered' = registered \cup {u}
          /\ \E f \in SyncSteps(s, registered') :
               sync' = [sync EXCEPT ![c] = f]
       \/ /\ sync' = [sync EXCEPT ![c] = SyncRaise(s, "add_roles", u)]
          /\ UNCHANGED registered                 \* add_roles raises
    /\ UNCHANGED <<lifeVars, guildVars, botVars, ready, obsVars, voiceVars>>

\* one iteration of the second loop of sync_roles (lines 165-167)
sync_roles_remove(c) ==
    /\ sync[c].pc = "remove"
    /\ \E u \in sync[c].todo :
         LET s == [sync[c] EXCEPT !.todo = @ \ {u}] IN
         \/ /\ u \in members                      \* remove_roles succeeds
            /\ registered' = registered \ {u}
            /\ sync' = [sync EXCEPT ![c] = SyncRunOn(s, registered')]
         \/ /\ sync' = [sync EXCEPT ![c] = SyncRaise(s, "remove_roles", u)]
            /\ UNCHANGED registered               \* remove_roles raises
    /\ UNCHANGED <<lifeVars, guildVars, botVars, ready, obsVars, voiceVars>>

\* ------------------------------------------------------------------ on_ready
\* lines 300-307: load the map and start the pass; ready.message_ids is the
\* set of line 306 as it was read, before line 152 discards from it
on_ready ==
    /\ ready.pc \in {"idle", "done", "raised"}
    /\ sync' = [sync EXCEPT !["on_ready"] =
                    SyncEnter(get_all_message_ids(data))]
    /\ ready' = [pc |-> "sync", message_ids |-> get_all_message_ids(data),
                 before |-> registered, again |-> ready.pc = "done"]
    /\ UNCHANGED <<lifeVars, guildVars, registered, botVars, obsVars, voiceVars>>

\* lines 308-311: the pass returned (or raised out of the handler)
on_ready_return ==
    /\ ready.pc = "sync"
    /\ sync["on_ready"].pc \in {"done", "raised"}
    /\ ready' = [ready EXCEPT !.pc = sync["on_ready"].pc]
    /\ healed' = IF sync["on_ready"].pc = "done"
                 THEN healed \cup (ready.message_ids
                                     \ sync["on_ready"].message_ids)
                 ELSE healed
    /\ UNCHANGED <<lifeVars, guildVars, registered, botVars, sync, refetched, voiceVars>>

\* ------------------------------------------------------------ voice reconciler
Places    == {"none", "meeting", "other"}   \* "meeting" is EVENT_CHANNEL_ID
VcCallers == {"scrim_vc_check", "event"}
VoiceRoles == {"ACTIVE_ROLE_ID", "SPECTATOR_ROLE_ID"}

\* the frame of one update_scrim_vc_roles call
\*   pc     "idle" | "meeting" | "other" (the loops of lines 226 and 241) |
\*          "left_active" | "left_spectator" (lines 256 and 263) | "done"
\*   cur    the member of the loop of line 226 or 241 a call is awaited for
\*   call   the awaited call: "add" (line 231 or 246), "remove" (line 236 or
\*          251), "none" when the pass awaits no call of these two loops
\*   failed (observation) the members a call of this pass failed for
\*   before_active, before_spectator (observation) the holders of the two
\*          roles when the pass took its snapshot
\*   skipped (observation) the last tick of scrim_vc_check returned at
\*          line 284
VcIdle == [pc |-> "idle", members_in_meeting_point |-> {},
           members_in_other_vc |-> {}, todo |-> {}, cur |-> NoUser,
           call |-> "none", failed |-> {}, before_active |-> {},
           before_spectator |-> {}, skipped |-> FALSE]

\* lines 214-221: the snapshot of the voice channels
InChannel(place) ==
    {u \in members : voice[u] = place /\ NotBot(u)}

AllInVcUnion(f) == f.members_in_meeting_point \cup f.members_in_other_vc

AllInVc_meetingOnly(f) == f.members_in_meeting_point

\* line 223: all_in_vc
AllInVc(f) == AllInVcUnion(f)

\* a loop that has nothing left runs on into the next one: line 241, then
\* the loops over list(active_role.members) and list(spectator_role.members)
\* (todo keeps the members lines 257 and 264 select), then the return
VcRunOn(f, act, spec) ==
    LET a == IF f.pc = "meeting" /\ f.todo = {} /\ f.cur = NoUser
             THEN [f EXCEPT !.pc = "other", !.todo = f.members_in_other_vc]
             ELSE f
        b == IF a.pc = "other" /\ a.todo = {} /\ a.cur = NoUser
             THEN [a EXCEPT !.pc = "left_active",
                            !.todo = {u \in act : u \notin AllInVc(a)}]
             ELSE a
        c == IF b.pc = "left_active" /\ b.todo = {}
             THEN [b EXCEPT !.pc = "left_spectator",
                            !.todo = {u \in spec : u \notin AllInVc(b)}]
             ELSE b
    IN IF c.pc = "left_spectator" /\ c.todo = {}
       THEN [c EXCEPT !.pc = "done"] ELSE c

\* the loop of line 226 (pc "meeting") or 241 (pc "other") from its next
\* member up to the first call it makes, as the roles stand now: a member
\* that left the guild (lines 228, 243) or that lines 229 and 234 (244 and
\* 249) find in order is passed without an await; for the first other member
\* the call of line 231 (246) is made when the role of the channel is
\* missing, else the call of line 236 (251). The set is empty when no member
\* that is left needs a call.
VcPick(f, act, spec) ==
    LET own  == IF f.pc = "meeting" THEN spec ELSE act
        opp  == IF f.pc = "meeting" THEN act ELSE spec
        skip == {u \in f.todo : u \notin members \/ (u \in own /\ u \notin opp)}
    IN {[f EXCEPT !.todo = @ \ (S \cup {u}), !.cur = u,
                  !.call = IF u \notin own THEN "add" ELSE "remove"] :
          u \in f.todo \ skip, S \in SUBSET skip}

\* the frames the pass can have at its next await (or at its return) when it
\* goes on from f with no call outstanding
VcSteps(f, act, spec) ==
    IF f.pc = "meeting"
    THEN IF VcPick(f, act, spec) # {}
         THEN VcPick(f, act, spec)
         ELSE LET g == [f EXCEPT !.pc = "other", !.todo = f.members_in_other_vc]
              IN IF VcPick(g, act, spec) # {}
                 THEN VcPick(g, act, spec)
                 ELSE {VcRunOn([g EXCEPT !.todo = {}], act, spec)}
    ELSE IF f.pc = "other"
    THEN IF VcPick(f, act, spec) # {}
         THEN VcPick(f, act, spec)
         ELSE {VcRunOn([f EXCEPT !.todo = {}], act, spec)}
    ELSE {VcRunOn(f, act, spec)}

\* lines 234 and 249 after the call of line 231 or 246 was answered for u:
\* the second call of the body is made when u holds the other role now
VcSecond(f, u, act, spec) ==
    IF \/ f.pc = "meeting" /\ u \in act
       \/ f.pc = "other" /\ u \in spec
    THEN {[f EXCEPT !.cur = u, !.call = "remove"]}
    ELSE VcSteps(f, act, spec)

\* lines 204-223: the call update_scrim_vc_roles(guild) up to its first await
VcEnter ==
    IF VoiceRoles \subseteq guild_roles
    THEN VcSteps([VcIdle EXCEPT !.pc = "meeting",
                                !.members_in_meeting_point = InChannel("meeting"),
                                !.members_in_other_vc = InChannel("other"),
                                !.todo = InChannel("meeting"),
                                !.before_active = active,
                                !.before_spectator = spectator],
                 active, spectator)
    ELSE {[VcIdle EXCEPT !.pc = "done"]}          \* lines 207-209

VcFail_abort(f, u) ==
    [f EXCEPT !.failed = @ \cup {u}, !.pc = "done", !.todo = {},
              !.cur = NoUser, !.call = "none"]

\* the except blocks of lines 232, 237, 247, 252, 260 and 267: the failure is
\* printed and the pass goes on
VcFail(f, u) == [f EXCEPT !.failed = @ \cup {u}]

\* line 231 answered: add_roles(spectator_role) gave the role or raised
\* (lines 232-233); then line 234 with the roles the member has now
vc_meeting(c) ==
    /\ vc[c].pc = "meeting"
    /\ vc[c].call = "add"
    /\ LET u == vc[c].cur
           f == [vc[c] EXCEPT !.cur = NoUser, !.call = "none"] IN
       \/ /\ u \in members
          /\ spectator' = spectator \cup {u}
          /\ \E g \in VcSecond(f, u, active, spectator') :
               vc' = [vc EXCEPT ![c] = g]
       \/ /\ UNCHANGED spectator                  \* add_roles raises
          /\ \E g \in VcSecond(VcFail(f, u), u, active, spectator) :
               vc' = [vc EXCEPT ![c] = g]
    /\ UNCHANGED <<lifeVars, guildVars, botVars, regVars, voiceEnv, active>>

\* line 236 answered: remove_roles(active_role) took the role or raised
\* (lines 237-238); then the loop goes on
vc_meeting_active(c) ==
    /\ vc[c].pc = "meeting"
    /\ vc[c].call = "remove"
    /\ LET u == vc[c].cur
           f == [vc[c] EXCEPT !.cur = NoUser, !.call = "none"] IN
       \/ /\ u \in members
          /\ active' = active \ {u}
          /\ \E g \in VcSteps(f, active', spectator) :
               vc' = [vc EXCEPT ![c] = g]
       \/ /\ UNCHANGED active                     \* remove_roles raises
          /\ \E g \in VcSteps(VcFail(f, u), active, spectator) :
               vc' = [vc EXCEPT ![c] = g]
    /\ UNCHANGED <<lifeVars, guildVars, botVars, regVars, voiceEnv, spectator>>

\* line 246 answered: add_roles(active_role) gave the role or raised
\* (lines 247-248); then line 249 with the roles the member has now
vc_other(c) ==
    /\ vc[c].pc = "other"
    /\ vc[c].call = "add"
    /\ LET u == vc[c].cur
           f == [vc[c] EXCEPT !.cur = NoUser, !.call = "none"] IN
       \/ /\ u \in members
          /\ active' = active \cup {u}
          /\ \E g \in VcSecond(f, u, active', spectator) :
               vc' = [vc EXCEPT ![c] = g]
       \/ /\ UNCHANGED active                     \* add_roles raises
          /\ \E g \in VcSecond(VcFail(f, u), u, active, spectator) :
               vc' = [vc EXCEPT ![c] = g]
    /\ UNCHANGED <<lifeVars, guildVars, botVars, regVars, voiceEnv, spectator>>

\* line 251 answered: remove_roles(spectator_role) took the role or raised
\* (lines 252-253); then the loop goes on
vc_other_spectator(c) ==
    /\ vc[c].pc = "other"
    /\ vc[c].call = "remove"
    /\ LET u == vc[c].cur
           f == [vc[c] EXCEPT !.cur = NoUser, !.call = "none"] IN
       \/ /\ u \in members
          /\ spectator' = spectator \ {u}
          /\ \E g \in VcSteps(f, active, spectator') :
               vc' = [vc EXCEPT ![c] = g]
       \/ /\ UNCHANGED spectator                  \* remove_roles raises
          /\ \E g \in VcSteps(VcFail(f, u), active, spectator) :
               vc' = [vc EXCEPT ![c] = g]
    /\ UNCHANGED <<lifeVars, guildVars, botVars, regVars, voiceEnv, active>>

\* lines 256-261: one holder of Active that is in no voice channel
vc_left_active(c) ==
    /\ vc[c].pc = "left_active"
    /\ \E u \in vc[c].todo :
         LET f == [vc[c] EXCEPT !.todo = @ \ {u}] IN
         \/ /\ u \in members                      \* remove_roles(active_role)
            /\ active' = active \ {u}
            /\ vc' = [vc EXCEPT ![c] = VcRunOn(f, active', spectator)]
         \/ /\ UNCHANGED active                   \* remove_roles raises
            /\ vc' = [vc EXCEPT ![c] = VcRunOn(VcFail(f, u), active, spectator)]
    /\ UNCHANGED <<lifeVars, guildVars, botVars, regVars, voiceEnv, spectator>>

\* lines 263-268: one holder of Spectator that is in no voice channel
vc_left_spectator(c) ==
    /\ vc[c].pc = "left_spectator"
    /\ \E u \in vc[c].todo :
         LET f == [vc[c] EXCEPT !.todo = @ \ {u}] IN
         \/ /\ u \in members                      \* remove_roles(spectator_role)
            /\ spectator' = spectator \ {u}
            /\ vc' = [vc EXCEPT ![c] = VcRunOn(f, active, spectator')]
         \/ /\ UNCHANGED spectator                \* remove_roles raises
            /\ vc' = [vc EXCEPT ![c] = VcRunOn(VcFail(f, u), active, spectator)]
    /\ UNCHANGED <<lifeVars, guildVars, botVars, regVars, voiceEnv, active>>

update_scrim_vc_roles(c) ==
    \/ vc_meeting(c)
    \/ vc_meeting_active(c)
    \/ vc_other(c)
    \/ vc_other_spectator(c)
    \/ vc_left_active(c)
    \/ vc_left_spectator(c)

ScrimGate_open(flag) == TRUE

\* line 283: if not scrim_active: return
ScrimGate(flag) == flag

\* lines 280-286: a tick of the one-minute loop; the loop starts the next
\* tick only after this one returned
scrim_vc_check ==
    /\ vc["scrim_vc_check"].pc \in {"idle", "done"}
    /\ \E f \in (IF ScrimGate(scrim_active)
                THEN VcEnter
                ELSE {[VcIdle EXCEPT !.skipped = TRUE]}) :
         vc' = [vc EXCEPT !["scrim_vc_check"] = f]
    /\ UNCHANGED <<lifeVars, guildVars, botVars, regVars, voiceEnv, active, spectator>>

\* ------------------------------------------------------------ scheduled events
NoEvent == 0
MaxInFlight == 2    \* handlers of this section that may be in flight together
MaxHandlers == 2    \* on_scheduled_event_update runs that may overlap
MaxCount    == 2    \* the registered count up to which event update is run
MaxOps      == 3    \* commands and outside events of one behaviour
Slots == 1..MaxHandlers

\* the same set with the status a cancelled event takes
Ended_withCanceled == {"completed", "canceled"}

\* EventStatus.ended is an alias of EventStatus.completed
Ended == {"completed"}

\* the events guild.fetch_scheduled_events() lists
Listed == {e \in EventIds : evStatus[e] \in {"scheduled", "active"}}

\* the id Discord gives the next scheduled event
FreshEvents == {e \in EventIds : evStatus[e] = "none"}
NewEvent == CHOOSE e \in FreshEvents : \A x \in FreshEvents : e <= x

Terminal == {"idle", "done", "raised"}

InFlight ==
    Cardinality({i \in Slots : osu[i].pc # "idle"})
    + (IF del.pc \in Terminal THEN 0 ELSE 1)
    + (IF can.pc \in Terminal THEN 0 ELSE 1)
    + (IF cre.pc \in Terminal THEN 0 ELSE 1)
    + (IF mdl.pc \in Terminal THEN 0 ELSE 1)
    + (IF upd.pc \in Terminal THEN 0 ELSE 1)

\* Discord, or a moderator in its client, starts a scheduled event
EnvStart ==
    /\ \E e \in EventIds :
         /\ evStatus[e] = "scheduled"
         /\ evStatus' = [evStatus EXCEPT ![e] = "active"]
    /\ ops > 0
    /\ ops' = ops - 1
    /\ UNCHANGED <<reactVars, tickVars, handled, guildVars, botVars, regVars, voiceVars, notifs, msgdel,
                   nextMsg, stats, cmdVars, created, rekeyed, serial>>

\* Discord ends an active event (the last member left its voice channel)
EnvEnd ==
    /\ \E e \in EventIds :
         /\ evStatus[e] = "active"
         /\ evStatus' = [evStatus EXCEPT ![e] = "completed"]
         /\ notifs' = notifs \cup {[id |-> e, status |-> "completed"]}
    /\ ops > 0
    /\ ops' = ops - 1
    /\ UNCHANGED <<reactVars, tickVars, handled, guildVars, botVars, regVars, voiceVars, msgdel,
                   nextMsg, stats, cmdVars, created, rekeyed, serial>>

\* the gateway delivers the notification of an ended event once more
EnvRedeliver ==
    /\ \E h \in handled :
         /\ h.status \in Ended
         /\ notifs' = notifs \cup {[id |-> h.id, status |-> h.status]}
    /\ ops > 0
    /\ ops' = ops - 1
    /\ UNCHANGED <<reactVars, tickVars, handled, guildVars, botVars, regVars, voiceVars, evStatus,
                   msgdel, nextMsg, stats, cmdVars, created, rekeyed, serial>>

\* somebody deletes a message of the registration channel
EnvDeleteMessage ==
    /\ \E m \in msgs :
         /\ msgs' = msgs \ {m}
         /\ reactions' = [reactions EXCEPT ![m] = {}]
         /\ msgdel' = msgdel \cup {m}
    /\ ops > 0
    /\ ops' = ops - 1
    /\ UNCHANGED <<reactVars, tickVars, handled, members, botVars, regVars, voiceVars, schedVars,
                   nextMsg, stats, cmdVars, created, rekeyed, serial>>

\* ------------------------------------------------- on_scheduled_event_update
\* the frame of one run of on_scheduled_event_update; start_time is the
\* argument of line 403, read when create_scheduled_event is called
OsuIdle == [pc |-> "idle", after |-> NoEvent, data |-> EmptyDict,
            start_time |-> 0, new_event |-> NoEvent]

RestartsUnguarded(n, d) ==
    /\ n.status \in Ended
    /\ scrim_active
    /\ Str(n.id) \in DOMAIN d

\* lines 380-394: the four early returns
Restarts(n, d) ==
    /\ ~manually_deleting
    /\ n.status \in Ended
    /\ scrim_active
    /\ Str(n.id) \in DOMAIN d

\* lines 411-412: old_msg_id = data.pop(str(after.id));
\* data[str(new_event.id)] = old_msg_id
Rekey(d, old, new) == DictPut(DictDel(d, Str(old)), Str(new), d[Str(old)])

\* the same update applied to the map as it is when the handler saves
RekeySerial(d, old, new) ==
    IF Str(old) \in DOMAIN d THEN Rekey(d, old, new) ELSE d

OsuRaised_partial(d, old) == DictDel(d, Str(old))

\* lines 416-417: the except block prints; lines 411-413 were not reached, so
\* the map on disk is the one it was
OsuRaised(d, old) == d

\* lines 376-400: a notification is dispatched; the handler returns or loads
\* the map and calls create_scheduled_event
on_scheduled_event_update(i) ==
    /\ osu[i].pc = "idle"
    /\ \E n \in notifs :
         /\ notifs' = notifs \ {n}
         /\ handled' = handled \cup
               {[id |-> n.id, status |-> n.status,
                 deleting |-> manually_deleting, active |-> scrim_active,
                 tracked |-> Str(n.id) \in DOMAIN data,
                 restarted |-> Restarts(n, data)]}
         /\ IF Restarts(n, data)
            THEN /\ InFlight < MaxInFlight
                 /\ osu' = [osu EXCEPT ![i] =
                       [pc |-> "create", after |-> n.id, data |-> data,
                        start_time |-> now,             \* line 403
                        new_event |-> NoEvent]]
            ELSE UNCHANGED osu
    /\ UNCHANGED <<reactVars, tickVars, ops, guildVars, botVars, regVars, voiceVars, evStatus, msgdel,
                   nextMsg, stats, del, can, cre, mdl, upd, created, rekeyed,
                   serial>>

\* lines 400-408: create_scheduled_event returned (or raised, line 416);
\* new_event.start() is called
osu_create(i) ==
    /\ osu[i].pc = "create"
    /\ \/ /\ FreshEvents # {}
          /\ evStatus' = [evStatus EXCEPT ![NewEvent] = "scheduled"]
          /\ start_time' = [start_time EXCEPT ![NewEvent] =
                                               osu[i].start_time]
          /\ osu' = [osu EXCEPT ![i].pc = "start", ![i].new_event = NewEvent]
          /\ created' = created \cup {NewEvent}
          /\ UNCHANGED <<data, serial>>
       \/ /\ osu' = [osu EXCEPT ![i] = OsuIdle]
          /\ data' = OsuRaised(data, osu[i].after)
          /\ serial' = OsuRaised(serial, osu[i].after)
          /\ UNCHANGED <<evStatus, created, start_time>>
    /\ UNCHANGED <<reactVars, now, warned_events, warnings, ce, moved, handled, ops, guildVars, scrim_active, manually_deleting, regVars, voiceVars, notifs, msgdel,
                   nextMsg, stats, del, can, cre, mdl, upd, rekeyed>>

\* lines 408-415: new_event.start() returned (or raised, line 416); the entry
\* is re-keyed in the map loaded at line 392 and the map is saved
osu_start(i) ==
    /\ osu[i].pc = "start"
    /\ LET f == osu[i] IN
       \/ /\ evStatus[f.new_event] = "scheduled"
          /\ evStatus' = [evStatus EXCEPT ![f.new_event] = "active"]
          /\ data' = Rekey(f.data, f.after, f.new_event)
          /\ serial' = RekeySerial(serial, f.after, f.new_event)
          /\ rekeyed' = rekeyed \cup {f.new_event}
       \/ /\ data' = OsuRaised(data, f.after)
          /\ serial' = OsuRaised(serial, f.after)
          /\ UNCHANGED <<evStatus, rekeyed>>
    /\ osu' = [osu EXCEPT ![i] = OsuIdle]
    /\ UNCHANGED <<reactVars, tickVars, handled, ops, guildVars, scrim_active, manually_deleting, regVars,
                   voiceVars, notifs, msgdel, nextMsg, stats, del, can, cre,
                   mdl, upd, created>>

\* -------------------------------------------------------------------- create
\* the timestamps create is given, in seconds after the call
CreateAhead == {3600}

CreIdle == [pc |-> "idle", event |-> NoEvent, msg |-> NoMsg]

\* lines 425-451: the arguments parse and create_scheduled_event is called
create ==
    /\ cre.pc \in Terminal
    /\ InFlight < MaxInFlight
    /\ cre' = [CreIdle EXCEPT !.pc = "create_event"]
    /\ ops > 0
    /\ ops' = ops - 1
    /\ UNCHANGED <<reactVars, tickVars, handled, guildVars, botVars, regVars, voiceVars, schedVars, msgdel,
                   nextMsg, stats, osu, del, can, mdl, upd, created, rekeyed,
                   serial>>

\* lines 451-475: the event exists (or lines 459-464) and the post is sent
create_event ==
    /\ cre.pc = "create_event"
    /\ \/ /\ FreshEvents # {}
          /\ evStatus' = [evStatus EXCEPT ![NewEvent] = "scheduled"]
          /\ \E t \in CreateAhead :                     \* lines 435, 448
                start_time' = [start_time EXCEPT ![NewEvent] = now + t]
          /\ cre' = [cre EXCEPT !.pc = "send", !.event = NewEvent]
       \/ /\ cre' = [CreIdle EXCEPT !.pc = "done"]
          /\ UNCHANGED <<evStatus, start_time>>
    /\ UNCHANGED <<reactVars, now, warned_events, warnings, ce, moved, handled, ops, guildVars, botVars, regVars, voiceVars, notifs, msgdel,
                   nextMsg, stats, osu, del, can, mdl, upd, created, rekeyed,
                   serial>>

\* lines 475-476: the post exists (or lines 477-479) and the marker is added
create_send ==
    /\ cre.pc = "send"
    /\ \/ /\ nextMsg \in MsgIds
          /\ msgs' = msgs \cup {nextMsg}
          /\ nextMsg' = nextMsg + 1
          /\ cre' = [cre EXCEPT !.pc = "add_reaction", !.msg = nextMsg]
       \/ /\ cre' = [CreIdle EXCEPT !.pc = "done"]
          /\ UNCHANGED <<msgs, nextMsg>>
    /\ UNCHANGED <<reactVars, tickVars, handled, ops, members, reactions, botVars, regVars, voiceVars, schedVars,
                   msgdel, stats, osu, del, can, mdl, upd, created, rekeyed,
                   serial>>

\* lines 476-486: the marker is on the post (or lines 477-479); the mapping
\* is loaded, extended and saved
create_add_reaction ==
    /\ cre.pc = "add_reaction"
    /\ \/ /\ cre.msg \in msgs
          /\ reactions' = [reactions EXCEPT ![cre.msg] = @ \cup {BotUser}]
          /\ data' = DictPut(data, Str(cre.event), cre.msg)
          /\ serial' = DictPut(serial, Str(cre.event), cre.msg)
       \/ /\ UNCHANGED <<reactions, data, serial>>
    /\ cre' = [CreIdle EXCEPT !.pc = "done"]
    /\ UNCHANGED <<reactVars, tickVars, handled, ops, members, msgs, scrim_active, manually_deleting, regVars,
                   voiceVars, schedVars, msgdel, nextMsg, stats, osu, del,
                   can, mdl, upd, created, rekeyed>>

\* ----------------------------------------------------- on_raw_message_delete
MdlIdle == [pc |-> "idle"]

\* lines 977-981: the entry of the deleted message is dropped
Untrack(d, k) == DictDel(d, k)

\* lines 970-990: a deletion is dispatched; the handler returns, or drops
\* the entry of the message, saves the map and starts the pass
on_raw_message_delete ==
    /\ mdl.pc \in Terminal
    /\ \E m \in msgdel :
         /\ msgdel' = msgdel \ {m}
         /\ IF m \in get_all_message_ids(data)
            THEN /\ InFlight < MaxInFlight
                 /\ \E k \in {x \in DOMAIN data : data[x] = m} :
                      /\ data' = Untrack(data, k)
                      /\ serial' = Untrack(serial, k)
                      /\ sync' = [sync EXCEPT !["on_raw_message_delete"] =
                            SyncEnter(get_all_message_ids(data'))]
                 /\ mdl' = [pc |-> "sync"]
            ELSE UNCHANGED <<data, serial, sync, mdl>>
    /\ UNCHANGED <<reactVars, tickVars, handled, ops, guildVars, scrim_active, manually_deleting, registered,
                   ready, obsVars, voiceVars, schedVars, nextMsg, stats, osu,
                   del, can, cre, upd, created, rekeyed>>

\* line 991: the pass returned (or raised out of the handler)
on_raw_message_delete_return ==
    /\ mdl.pc = "sync"
    /\ sync["on_raw_message_delete"].pc \in {"done", "raised"}
    /\ mdl' = [pc |-> sync["on_raw_message_delete"].pc]
    /\ sync' = [sync EXCEPT !["on_raw_message_delete"] = SyncIdle]
    /\ UNCHANGED <<reactVars, tickVars, handled, ops, guildVars, botVars, registered, ready, obsVars,
                   voiceVars, schedVars, msgdel,
                   nextMsg, stats, osu, del, can, cre, upd, created, rekeyed,
                   serial>>

\* -------------------------------------------------------------------- delete
DelIdle == [pc |-> "idle", active_event |-> NoEvent, data |-> EmptyDict,
            todo |-> {}, tracked |-> FALSE, ended |-> {}, failed |-> FALSE]

\* remove_active_role_all (line 174) runs on into remove_spectator_role_all
\* (line 185), which runs on into line 531
DelRunOn(f, spec) ==
    LET a == IF f.pc = "remove_active" /\ f.todo = {}
             THEN [f EXCEPT !.pc = "remove_spectator", !.todo = spec] ELSE f
    IN IF a.pc = "remove_spectator" /\ a.todo = {}
       THEN [a EXCEPT !.pc = "resync"] ELSE a

\* lines 532-538: the map is loaded, the entry of the active event is dropped
\* from the copy, and the pass over the remaining messages begins
DelContinue(f) ==
    IF f.pc = "resync"
    THEN LET d == IF f.active_event # NoEvent
                     /\ Str(f.active_event) \in DOMAIN data
                  THEN DictDel(data, Str(f.active_event)) ELSE data
         IN /\ sync' = [sync EXCEPT !["delete"] =
                           SyncEnter(get_all_message_ids(d))]
            /\ del' = [f EXCEPT !.pc = "sync"]
    ELSE /\ del' = f
         /\ UNCHANGED sync

\* lines 496-507: the flags are set and the first message is sent
delete ==
    /\ del.pc \in Terminal
    /\ InFlight < MaxInFlight
    /\ manually_deleting' = TRUE
    /\ scrim_active' = FALSE
    /\ del' = [DelIdle EXCEPT !.pc = "send", !.ended = del.ended]
    /\ ops > 0
    /\ ops' = ops - 1
    /\ UNCHANGED <<reactVars, tickVars, handled, guildVars, data, regVars, voiceVars, schedVars, msgdel,
                   nextMsg, stats, osu, can, cre, mdl, upd, created, rekeyed,
                   serial>>

\* line 507 returned, fetch_scheduled_events is called; or line 507 raised
delete_send ==
    /\ del.pc = "send"
    /\ \/ del' = [del EXCEPT !.pc = "fetch_events"]
       \/ del' = [DelIdle EXCEPT !.pc = "raised", !.ended = del.ended, !.failed = del.failed]
    /\ UNCHANGED <<reactVars, tickVars, handled, ops, guildVars, botVars, regVars, voiceVars, schedVars, msgdel,
                   nextMsg, stats, osu, can, cre, mdl, upd, created, rekeyed,
                   serial>>

\* lines 516-527: the active event is looked up; when the lookup raised, the
\* warning of line 524 is sent, which may raise out of the handler
delete_fetch_events ==
    /\ del.pc = "fetch_events"
    /\ LET act == {e \in Listed : evStatus[e] = "active"} IN
       \/ \E e \in (IF act = {} THEN {NoEvent} ELSE act) :
            DelContinue(DelRunOn([del EXCEPT !.pc = "remove_active",
                                             !.active_event = e,
                                             !.todo = active], spectator))
       \/ DelContinue(DelRunOn([del EXCEPT !.pc = "remove_active",
                                           !.todo = active], spectator))
       \/ /\ del' = [DelIdle EXCEPT !.pc = "raised", !.ended = del.ended, !.failed = del.failed]
          /\ UNCHANGED sync
    /\ UNCHANGED <<reactVars, tickVars, handled, ops, guildVars, botVars, registered, ready, obsVars, voiceVars,
                   schedVars, msgdel, nextMsg, stats, osu, can, cre, mdl, upd,
                   created, rekeyed, serial>>

\* lines 174-178: one holder of Active loses the role (or the call raised)
delete_remove_active ==
    /\ del.pc = "remove_active"
    /\ \E u \in del.todo :
         \/ /\ u \in members
            /\ active' = active \ {u}
            /\ DelContinue(DelRunOn([del EXCEPT !.todo = @ \ {u}], spectator))
         \/ /\ UNCHANGED active                   \* lines 177-178
            /\ DelContinue(DelRunOn([del EXCEPT !.todo = @ \ {u},
                                                !.failed = TRUE], spectator))
    /\ UNCHANGED <<reactVars, tickVars, handled, ops, guildVars, botVars, registered, ready, obsVars, voiceEnv,
                   spectator, vc, schedVars, msgdel, nextMsg, stats, osu, can,
                   cre, mdl, upd, created, rekeyed, serial>>

\* lines 185-189: one holder of Spectator loses the role (or the call raised)
delete_remove_spectator ==
    /\ del.pc = "remove_spectator"
    /\ \E u \in del.todo :
         \/ /\ u \in members
            /\ spectator' = spectator \ {u}
            /\ DelContinue(DelRunOn([del EXCEPT !.todo = @ \ {u}], spectator'))
         \/ /\ UNCHANGED spectator                \* lines 188-189
            /\ DelContinue(DelRunOn([del EXCEPT !.todo = @ \ {u},
                                                !.failed = TRUE], spectator))
    /\ UNCHANGED <<reactVars, tickVars, handled, ops, guildVars, botVars, registered, ready, obsVars, voiceEnv,
                   active, vc, schedVars, msgdel, nextMsg, stats, osu, can,
                   cre, mdl, upd, created, rekeyed, serial>>

\* lines 539-558: the pass returned and the map is loaded again, or the pass
\* raised and lines 541-548 clear the flag
delete_sync_return ==
    /\ del.pc = "sync"
    /\ sync["delete"].pc \in {"done", "raised"}
    /\ IF sync["delete"].pc = "raised"
       THEN /\ manually_deleting' = FALSE
            /\ del' = [DelIdle EXCEPT !.pc = "done", !.ended = del.ended, !.failed = del.failed]
       ELSE /\ UNCHANGED manually_deleting
            /\ del' = [del EXCEPT !.data = data,
                          !.tracked = del.active_event # NoEvent
                                      /\ Str(del.active_event) \in DOMAIN data,
                          !.pc = IF del.active_event # NoEvent
                                    /\ Str(del.active_event) \in DOMAIN data
                                 THEN "fetch_msg" ELSE "history"]
    /\ sync' = [sync EXCEPT !["delete"] = SyncIdle]
    /\ UNCHANGED <<reactVars, tickVars, handled, ops, guildVars, data, scrim_active, registered, ready,
                   obsVars, voiceVars,
                   schedVars, msgdel, nextMsg, stats, osu, can, cre, mdl, upd,
                   created, rekeyed, serial>>

\* lines 558-563: fetch_message returned; or it raised NotFound and the entry
\* is dropped and the map saved; or it raised otherwise (lines 574-577)
delete_fetch_msg ==
    /\ del.pc = "fetch_msg"
    /\ LET k == Str(del.active_event) IN
       \/ /\ del.data[k] \in msgs
          /\ del' = [del EXCEPT !.pc = "delete_msg"]
          /\ UNCHANGED <<data, serial, manually_deleting>>
       \/ /\ del.data[k] \notin msgs
          /\ data' = DictDel(del.data, k)
          /\ serial' = DictDel(serial, k)
          /\ del' = [del EXCEPT !.pc = "history", !.data = DictDel(@, k)]
          /\ UNCHANGED manually_deleting
       \/ /\ manually_deleting' = FALSE
          /\ del' = [DelIdle EXCEPT !.pc = "done", !.ended = del.ended, !.failed = del.failed]
          /\ UNCHANGED <<data, serial>>
    /\ UNCHANGED <<reactVars, tickVars, handled, ops, guildVars, scrim_active, regVars, voiceVars, schedVars,
                   msgdel, nextMsg, stats, osu, can, cre, mdl, upd, created,
                   rekeyed>>

\* lines 559-563: msg.delete() returned or raised NotFound, the entry is
\* dropped and the map saved; or it raised otherwise (lines 574-577)
delete_delete_msg ==
    /\ del.pc = "delete_msg"
    /\ LET k == Str(del.active_event)
           m == del.data[k] IN
       \/ /\ IF m \in msgs
             THEN /\ msgs' = msgs \ {m}
                  /\ reactions' = [reactions EXCEPT ![m] = {}]
                  /\ msgdel' = msgdel \cup {m}
             ELSE UNCHANGED <<msgs, reactions, msgdel>>
          /\ data' = DictDel(del.data, k)
          /\ serial' = DictDel(serial, k)
          /\ del' = [del EXCEPT !.pc = "history", !.data = DictDel(@, k)]
          /\ UNCHANGED manually_deleting
       \/ /\ manually_deleting' = FALSE
          /\ del' = [DelIdle EXCEPT !.pc = "done", !.ended = del.ended, !.failed = del.failed]
          /\ UNCHANGED <<msgs, reactions, msgdel, data, serial>>
    /\ UNCHANGED <<reactVars, tickVars, handled, ops, members, scrim_active, regVars, voiceVars, schedVars,
                   nextMsg, stats, osu, can, cre, mdl, upd, created, rekeyed>>

\* one await of lines 566-573: register_channel.history() is answered and
\* the loop keeps the bot's posts that the map does not track (every message
\* of the channel is a post of the bot), or message.delete() is answered for
\* one of them (line 570; NotFound is passed over); or the call raised
\* (lines 574-577)
delete_history ==
    /\ del.pc \in {"history", "history_delete"}
    /\ \/ /\ del.pc = "history"
          /\ LET remaining_message_ids == get_all_message_ids(del.data)
                 untracked == msgs \ remaining_message_ids IN
             del' = [del EXCEPT !.todo = untracked,
                                !.pc = IF untracked = {} THEN "clear"
                                       ELSE "history_delete"]
          /\ UNCHANGED <<msgs, reactions, msgdel, manually_deleting>>
       \/ /\ del.pc = "history_delete"
          /\ \E m \in del.todo :
               /\ IF m \in msgs
                  THEN /\ msgs' = msgs \ {m}
                       /\ reactions' = [reactions EXCEPT ![m] = {}]
                       /\ msgdel' = msgdel \cup {m}
                  ELSE UNCHANGED <<msgs, reactions, msgdel>>
               /\ del' = [del EXCEPT !.todo = @ \ {m},
                                     !.pc = IF del.todo = {m} THEN "clear"
                                            ELSE "history_delete"]
          /\ UNCHANGED manually_deleting
       \/ /\ manually_deleting' = FALSE
          /\ del' = [DelIdle EXCEPT !.pc = "done", !.ended = del.ended, !.failed = del.failed]
          /\ UNCHANGED <<msgs, reactions, msgdel>>
    /\ UNCHANGED <<reactVars, tickVars, handled, ops, members, data, scrim_active, regVars, voiceVars, schedVars,
                   nextMsg, stats, osu, can, cre, mdl, upd, created, rekeyed,
                   serial>>

\* lines 598-600
DelFinish(f) == [DelIdle EXCEPT !.pc = "done", !.ended = f.ended,
                              !.failed = f.failed]

\* lines 580-593: the two channels are cleared; a failure is reported with
\* ctx.send, which may raise out of the handler; then the event is ended, or
\* without an active event the flag is cleared
delete_clear ==
    /\ del.pc = "clear"
    /\ \/ IF del.active_event # NoEvent
          THEN /\ del' = [del EXCEPT !.pc = "end"]
               /\ UNCHANGED manually_deleting
          ELSE /\ del' = DelFinish(del)
               /\ manually_deleting' = FALSE
       \/ /\ del' = [DelIdle EXCEPT !.pc = "raised", !.ended = del.ended, !.failed = del.failed]
          /\ UNCHANGED manually_deleting
    /\ UNCHANGED <<reactVars, tickVars, handled, ops, guildVars, data, scrim_active, regVars, voiceVars,
                   schedVars, msgdel, nextMsg, stats, osu, can, cre, mdl, upd,
                   created, rekeyed, serial>>

\* lines 593-598: Discord has ended the event and delete waits for the
\* answer; or active_event.end() raised and the warning of line 596 was
\* sent, and the flag is cleared; or line 596 raised
delete_end ==
    /\ del.pc = "end"
    /\ LET e == del.active_event IN
       \/ /\ evStatus[e] = "active"
          /\ evStatus' = [evStatus EXCEPT ![e] = "completed"]
          /\ notifs' = notifs \cup {[id |-> e, status |-> "completed"]}
          /\ del' = [del EXCEPT !.pc = "ended",
                        !.ended = IF del.tracked THEN @ \cup {e} ELSE @]
          /\ UNCHANGED manually_deleting
       \/ /\ manually_deleting' = FALSE
          /\ del' = DelFinish(del)
          /\ UNCHANGED <<evStatus, notifs>>
       \/ /\ del' = [DelIdle EXCEPT !.pc = "raised", !.ended = del.ended, !.failed = del.failed]
          /\ UNCHANGED <<evStatus, notifs, manually_deleting>>
    /\ UNCHANGED <<reactVars, tickVars, handled, ops, guildVars, data, scrim_active, regVars, voiceVars, msgdel,
                   nextMsg, stats, osu, can, cre, mdl, upd, created, rekeyed,
                   serial>>

\* lines 594-600: active_event.end() returned and the flag is cleared
delete_ended ==
    /\ del.pc = "ended"
    /\ manually_deleting' = FALSE
    /\ del' = DelFinish(del)
    /\ UNCHANGED <<reactVars, tickVars, handled, ops, guildVars, data, scrim_active, regVars, voiceVars,
                   schedVars, msgdel, nextMsg, stats, osu, can, cre, mdl, upd,
                   created, rekeyed, serial>>

\* -------------------------------------------------------------------- cancel
\* the frame of cancel; rejected (observation) is the id the last run
\* turned down at lines 637-643
CanIdle == [pc |-> "idle", event_id |-> NoEvent, data |-> EmptyDict,
            rejected |-> NoEvent]

CanRejects_missingOnly(e) == e \notin Listed

\* lines 637-643: the id matches no listed event, or the event is active
CanRejects(e) == e \notin Listed \/ evStatus[e] = "active"

\* lines 608-628: the arguments parse, the first message is sent and
\* fetch_scheduled_events is called
cancel ==
    /\ can.pc \in Terminal
    /\ InFlight < MaxInFlight
    /\ \E e \in EventIds :
         can' = [CanIdle EXCEPT !.pc = "fetch_events", !.event_id = e]
    /\ ops > 0
    /\ ops' = ops - 1
    /\ UNCHANGED <<reactVars, tickVars, handled, guildVars, botVars, regVars, voiceVars, schedVars, msgdel,
                   nextMsg, stats, osu, del, cre, mdl, upd, created, rekeyed,
                   serial>>

\* lines 628-646: the target is looked up; the handler returns when the
\* lookup raised, found nothing or found an active event
cancel_fetch_events ==
    /\ can.pc = "fetch_events"
    /\ \/ /\ ~CanRejects(can.event_id)
          /\ can' = [can EXCEPT !.pc = "cancel"]
       \/ /\ CanRejects(can.event_id)
          /\ can' = [CanIdle EXCEPT !.pc = "done", !.rejected = can.event_id]
       \/ /\ can' = [CanIdle EXCEPT !.pc = "done"]
    /\ UNCHANGED <<reactVars, tickVars, handled, ops, guildVars, botVars, regVars, voiceVars, schedVars, msgdel,
                   nextMsg, stats, osu, del, cre, mdl, upd, created, rekeyed,
                   serial>>

\* pass over the messages the copy of the map still tracks (lines 672-674)
CanResync(f) ==
    /\ sync' = [sync EXCEPT !["cancel"] = SyncEnter(get_all_message_ids(f.data))]
    /\ can' = [f EXCEPT !.pc = "sync"]

\* lines 646-658: the event is cancelled and the map loaded; without an entry
\* for the event the handler returns (line 666); or cancel() raised
cancel_cancel ==
    /\ can.pc = "cancel"
    /\ LET e == can.event_id IN
       \/ /\ evStatus[e] = "scheduled"
          /\ evStatus' = [evStatus EXCEPT ![e] = "canceled"]
          /\ notifs' = notifs \cup {[id |-> e, status |-> "canceled"]}
          /\ can' = IF Str(e) \in DOMAIN data
                    THEN [can EXCEPT !.pc = "fetch_msg", !.data = data]
                    ELSE [CanIdle EXCEPT !.pc = "done"]
       \/ /\ can' = [CanIdle EXCEPT !.pc = "done"]
          /\ UNCHANGED <<evStatus, notifs>>
    /\ UNCHANGED <<reactVars, tickVars, handled, ops, guildVars, botVars, regVars, voiceVars, msgdel,
                   nextMsg, stats, osu, del, cre, mdl, upd, created, rekeyed,
                   serial>>

\* lines 658-663: fetch_message returned; or it raised NotFound and the entry
\* is dropped, the map saved and the pass begun; or lines 667-669
cancel_fetch_msg ==
    /\ can.pc = "fetch_msg"
    /\ LET k == Str(can.event_id) IN
       \/ /\ can.data[k] \in msgs
          /\ can' = [can EXCEPT !.pc = "delete_msg"]
          /\ UNCHANGED <<data, serial, sync>>
       \/ /\ can.data[k] \notin msgs
          /\ data' = DictDel(can.data, k)
          /\ serial' = DictDel(serial, k)
          /\ CanResync([can EXCEPT !.data = DictDel(@, k)])
       \/ /\ can' = [CanIdle EXCEPT !.pc = "done"]
          /\ UNCHANGED <<data, serial, sync>>
    /\ UNCHANGED <<reactVars, tickVars, handled, ops, guildVars, scrim_active, manually_deleting, registered,
                   ready, obsVars, voiceVars, schedVars, msgdel, nextMsg,
                   stats, osu, del, cre, mdl, upd, created, rekeyed>>

\* lines 659-674: msg.delete() returned or raised NotFound, the entry is
\* dropped, the map saved and the pass begun; or lines 667-669
cancel_delete_msg ==
    /\ can.pc = "delete_msg"
    /\ LET k == Str(can.event_id)
           m == can.data[k] IN
       \/ /\ IF m \in msgs
             THEN /\ msgs' = msgs \ {m}
                  /\ reactions' = [reactions EXCEPT ![m] = {}]
                  /\ msgdel' = msgdel \cup {m}
             ELSE UNCHANGED <<msgs, reactions, msgdel>>
          /\ data' = DictDel(can.data, k)
          /\ serial' = DictDel(serial, k)
          /\ CanResync([can EXCEPT !.data = DictDel(@, k)])
       \/ /\ can' = [CanIdle EXCEPT !.pc = "done"]
          /\ UNCHANGED <<msgs, reactions, msgdel, data, serial, sync>>
    /\ UNCHANGED <<reactVars, tickVars, handled, ops, members, scrim_active, manually_deleting, registered,
                   ready, obsVars, voiceVars, schedVars, nextMsg, stats, osu,
                   del, cre, mdl, upd, created, rekeyed>>

\* lines 675-680: the pass returned, or raised (lines 676-678)
cancel_return ==
    /\ can.pc = "sync"
    /\ sync["cancel"].pc \in {"done", "raised"}
    /\ can' = [CanIdle EXCEPT !.pc = "done"]
    /\ sync' = [sync EXCEPT !["cancel"] = SyncIdle]
    /\ UNCHANGED <<reactVars, tickVars, handled, ops, guildVars, botVars, registered, ready, obsVars,
                   voiceVars, schedVars, msgdel,
                   nextMsg, stats, osu, del, cre, mdl, upd, created, rekeyed,
                   serial>>

\* -------------------------------------------------------------- event update
UpdIdle == [pc |-> "idle", members_in_meeting_point |-> {},
            members_in_other_vc |-> {}]

NewStats_attended == [registered |-> 0, attended |-> 1]

\* line 108: the default entry
NewStats == [registered |-> 0, attended |-> 0]

\* lines 105-109
get_or_create_stats(st, k) == IF k \in DOMAIN st THEN st[k] ELSE NewStats

StatsUpdate_allAttend(st, reacted_ids, all_in_vc) ==
    [k \in DOMAIN st \cup {Str(u) : u \in reacted_ids} |->
        LET user_stats == get_or_create_stats(st, k) IN
        IF k[2] \in reacted_ids
        THEN [registered |-> user_stats.registered + 1,
              attended   |-> user_stats.attended + 1]
        ELSE user_stats]

\* lines 733-738
StatsUpdate(st, reacted_ids, all_in_vc) ==
    [k \in DOMAIN st \cup {Str(u) : u \in reacted_ids} |->
        LET user_stats == get_or_create_stats(st, k) IN
        IF k[2] \in reacted_ids
        THEN [registered |-> user_stats.registered + 1,
              attended   |-> user_stats.attended
                               + (IF k[2] \in all_in_vc THEN 1 ELSE 0)]
        ELSE user_stats]

\* lines 693-700: the subcommand is update and the first message is sent
event_update ==
    /\ upd.pc \in Terminal
    /\ InFlight < MaxInFlight
    /\ \A k \in DOMAIN stats : stats[k].registered < MaxCount
    /\ upd' = [UpdIdle EXCEPT !.pc = "send"]
    /\ ops > 0
    /\ ops' = ops - 1
    /\ UNCHANGED <<reactVars, tickVars, handled, guildVars, botVars, regVars, voiceVars, schedVars, msgdel,
                   nextMsg, stats, osu, del, can, cre, mdl, created, rekeyed,
                   serial>>

\* lines 700-729: line 700 returned (or raised); a missing role ends the
\* command; the voice channels are read, the map is loaded and the reactions
\* are fetched
event_send ==
    /\ upd.pc = "send"
    /\ \/ /\ VoiceRoles \subseteq guild_roles
          /\ upd' = [upd EXCEPT !.pc = "fetch",
                        !.members_in_meeting_point = InChannel("meeting"),
                        !.members_in_other_vc = InChannel("other")]
          /\ sync' = [sync EXCEPT !["event"] =
                         FetchEnter(get_all_message_ids(data))]
       \/ /\ ~(VoiceRoles \subseteq guild_roles)
          /\ upd' = [UpdIdle EXCEPT !.pc = "done"]
          /\ UNCHANGED sync
       \/ /\ upd' = [UpdIdle EXCEPT !.pc = "raised"]
          /\ UNCHANGED sync
    /\ UNCHANGED <<reactVars, tickVars, handled, ops, guildVars, botVars, registered, ready, obsVars, voiceVars,
                   schedVars, msgdel, nextMsg, stats, osu, del, can, cre, mdl,
                   created, rekeyed, serial>>

\* lines 729-742: the reactions are fetched (or the fetch raised); the
\* counts are raised and saved, and update_scrim_vc_roles is called
event_stats ==
    /\ upd.pc = "fetch"
    /\ sync["event"].pc \in {"done", "raised"}
    /\ IF sync["event"].pc = "raised"
       THEN /\ upd' = [UpdIdle EXCEPT !.pc = "raised"]
            /\ UNCHANGED <<stats, vc>>
       ELSE /\ stats' = StatsUpdate(stats, sync["event"].reacted_ids,
                                    upd.members_in_meeting_point
                                      \cup upd.members_in_other_vc)
            /\ \E f \in VcEnter : vc' = [vc EXCEPT !["event"] = f]
            /\ upd' = [upd EXCEPT !.pc = "vc"]
    /\ sync' = [sync EXCEPT !["event"] = SyncIdle]
    /\ UNCHANGED <<reactVars, tickVars, handled, ops, guildVars, botVars, registered, ready, obsVars,
                   voiceEnv, active, spectator,
                   schedVars, msgdel, nextMsg, osu, del, can, cre, mdl,
                   created, rekeyed, serial>>

\* lines 742-745: update_scrim_vc_roles returned; the flag is set
event_activate ==
    /\ upd.pc = "vc"
    /\ vc["event"].pc = "done"
    /\ scrim_active' = TRUE
    /\ upd' = [UpdIdle EXCEPT !.pc = "done"]
    /\ vc' = [vc EXCEPT !["event"] = VcIdle]
    /\ UNCHANGED <<reactVars, tickVars, handled, ops, guildVars, data, manually_deleting, regVars, voiceEnv,
                   active, spectator,
                   schedVars, msgdel, nextMsg, stats, osu, del, can, cre, mdl,
                   created, rekeyed, serial>>


\* ------------------------------------------------------------- check_events
MaxTicks  == 10     \* ticks of check_events in one behaviour
MaxMoves  == 1      \* reschedulings of an event in one behaviour
MaxSkips  == 1      \* ticks one behaviour loses
TickSeconds == 60   \* tasks.loop(minutes=1)

\* the frame of check_events
\*   pc     "idle" (between two ticks) | "fetch" | "loop" | "warn" | "start" |
\*          "announce" (line 358 is awaited) |
\*          "stopped" (an exception left the body: the loop has ended)
\*   now    the local of line 321
\*   todo   the events of the list of line 323 the loop has yet to visit,
\*          each as fetched: id, status and start_time
\*   cur    the event whose call is awaited
\*   ticks  the ticks that have returned or were lost
\*   skips  the ticks that were lost
\*   unsent (observation) the events whose warning could not be sent
\*   started (observation) the events a call of line 348 has started
\*   twice  (observation) the events for which line 348 was called after a
\*          call of line 348 had started them
\*   unstarted (observation) the events for which a call of line 348 raised
CeIdle == [pc |-> "idle", now |-> 0, todo |-> {}, cur |-> NoEvent,
           ticks |-> 0, skips |-> 0, unsent |-> {}, started |-> {},
           twice |-> {}, unstarted |-> {}]

\* line 326
Diff(ev, f) == ev.start_time - f.now

\* line 329, first conjunct
InWarningWindow(diff) == 1740 <= diff /\ diff <= 1800

AlreadyWarned_never(id, warned) == FALSE

\* line 329, second conjunct
AlreadyWarned(id, warned) == id \in warned

InStartWindow_early(diff) == -60 <= diff /\ diff <= 60

\* line 346
InStartWindow(diff) == -60 <= diff /\ diff <= 0

\* the loop of line 324 has nothing left: the tick returns
CeNext(f) ==
    IF f.pc = "loop" /\ f.todo = {}
    THEN [f EXCEPT !.pc = "idle", !.cur = NoEvent, !.ticks = @ + 1]
    ELSE f

\* the loop sleeps until the next minute after a tick returned
CeClock(f) == IF f.pc = "idle" THEN now + TickSeconds ELSE now

\* a moderator moves a scheduled event
EnvReschedule ==
    /\ ops > 0
    /\ ops' = ops - 1
    /\ \E e \in EventIds, d \in {1770, 1800} :
         /\ evStatus[e] = "scheduled"
         /\ start_time' = [start_time EXCEPT ![e] = now + d]
         /\ moved' = moved \cup {e}
    /\ UNCHANGED <<reactVars, guildVars, botVars, regVars, voiceVars, evStatus, lifeRest,
                   now, warned_events, warnings, ce>>

\* line 321: a tick begins
check_events ==
    /\ ce.pc = "idle"
    /\ ce.ticks < MaxTicks
    /\ ce' = [ce EXCEPT !.pc = "fetch", !.now = now]
    /\ UNCHANGED <<reactVars, guildVars, botVars, regVars, voiceVars, evStatus, ops,
                   lifeRest, now, start_time, warned_events, warnings, moved>>

\* a minute passes without a run of the body (the process is suspended or
\* the event loop is held up for longer than the interval)
check_events_skipped ==
    /\ ce.pc = "idle"
    /\ ce.ticks < MaxTicks
    /\ ce.skips < MaxSkips
    /\ ce' = [ce EXCEPT !.ticks = @ + 1, !.skips = @ + 1]
    /\ now' = now + TickSeconds
    /\ UNCHANGED <<reactVars, guildVars, botVars, regVars, voiceVars, evStatus, ops,
                   lifeRest, start_time, warned_events, warnings, moved>>

\* line 323: fetch_scheduled_events returns the list, or raises and ends
\* the loop (nothing in check_events catches it)
check_events_fetch ==
    /\ ce.pc = "fetch"
    /\ \/ LET f == CeNext([ce EXCEPT
                     !.pc = "loop",
                     !.todo = {[id |-> e, status |-> evStatus[e],
                                start_time |-> start_time[e]] : e \in Listed}])
          IN /\ ce' = f
             /\ now' = CeClock(f)
       \/ /\ ce' = [ce EXCEPT !.pc = "stopped"]
          /\ UNCHANGED now
    /\ UNCHANGED <<reactVars, guildVars, botVars, regVars, voiceVars, evStatus, ops,
                   lifeRest, start_time, warned_events, warnings, moved>>

\* lines 324-329 and 346: the body of the loop for one event, up to the
\* first call it awaits
check_events_event ==
    /\ ce.pc = "loop"
    /\ \E ev \in ce.todo :
         LET f == [ce EXCEPT !.todo = @ \ {ev}]
             g == IF ev.status # "scheduled" THEN CeNext(f)
                  ELSE IF InWarningWindow(Diff(ev, f))
                          /\ ~AlreadyWarned(ev.id, warned_events)
                       THEN [f EXCEPT !.pc = "warn", !.cur = ev]
                  ELSE IF InStartWindow(Diff(ev, f))
                       THEN [f EXCEPT !.pc = "start", !.cur = ev]
                  ELSE CeNext(f)
         IN /\ ce' = g
            /\ now' = CeClock(g)
    /\ UNCHANGED <<reactVars, guildVars, botVars, regVars, voiceVars, evStatus, ops,
                   lifeRest, start_time, warned_events, warnings, moved>>

\* lines 339-343: channel.send returned (the warning is a new message of
\* the registration channel and the id is recorded) or raised; then line 346
check_events_warn ==
    /\ ce.pc = "warn"
    /\ LET ev == ce.cur
           after(f) == IF InStartWindow(Diff(ev, f))
                       THEN [f EXCEPT !.pc = "start"]
                       ELSE CeNext([f EXCEPT !.pc = "loop"])
       IN \/ /\ warnings' = [warnings EXCEPT ![ev.id] = @ + 1]
             /\ warned_events' = warned_events \cup {ev.id}
             /\ msgs' = msgs \cup {nextMsg}
             /\ nextMsg' = nextMsg + 1
             /\ ce' = after(ce)
             /\ now' = CeClock(after(ce))
          \/ /\ UNCHANGED <<warnings, warned_events, msgs, nextMsg>>
             /\ ce' = after([ce EXCEPT !.unsent = @ \cup {ev.id}])
             /\ now' = CeClock(after(ce))
    /\ UNCHANGED <<reactVars, members, reactions, botVars, regVars, voiceVars,
                   evStatus, ops, notifs, msgdel, stats, cmdVars, handled,
                   created, rekeyed, serial, start_time, moved>>

\* lines 347-348: event.start() returned and the announcement is sent
\* (line 358), or the call raised (the event may have been started,
\* cancelled or deleted since line 323)
check_events_start ==
    /\ ce.pc = "start"
    /\ LET e == ce.cur.id
           c == [ce EXCEPT !.twice = IF e \in ce.started THEN @ \cup {e} ELSE @]
           g == CeNext([c EXCEPT !.pc = "loop", !.unstarted = @ \cup {e}])
       IN \/ /\ evStatus[e] = "scheduled"
             /\ evStatus' = [evStatus EXCEPT ![e] = "active"]
             /\ ce' = [c EXCEPT !.pc = "announce", !.started = @ \cup {e}]
             /\ UNCHANGED now
          \/ /\ UNCHANGED evStatus
             /\ ce' = g
             /\ now' = CeClock(g)
    /\ UNCHANGED <<reactVars, guildVars, botVars, regVars, voiceVars, ops, lifeRest,
                   start_time, warned_events, warnings, moved>>

\* lines 358-360: channel.send returned (the announcement is a new message
\* of the registration channel) or raised; the loop goes on
check_events_announce ==
    /\ ce.pc = "announce"
    /\ LET f == CeNext([ce EXCEPT !.pc = "loop"])
       IN /\ \/ /\ msgs' = msgs \cup {nextMsg}
                /\ nextMsg' = nextMsg + 1
             \/ UNCHANGED <<msgs, nextMsg>>
          /\ ce' = f
          /\ now' = CeClock(f)
    /\ UNCHANGED <<reactVars, members, reactions, botVars, regVars, voiceVars,
                   evStatus, ops, notifs, msgdel, stats, cmdVars, handled,
                   created, rekeyed, serial, start_time, warned_events,
                   warnings, moved>>


\* --------------------------------------------------------- reaction handlers
MaxReacts == 2      \* reactions added or removed in one behaviour

\* the frame of on_raw_reaction_add
\*   pc     "idle" | "add_roles" (line 922 is awaited)
\*   failed (observation) a call of the handler has raised
RaddIdle == [pc |-> "idle", user |-> NoUser, failed |-> FALSE]

\* the frame of on_raw_reaction_remove
\*   pc     "idle" | "fetch" (the loop of line 943) | "remove" (line 962 is
\*          awaited)
\*   msg    payload.message_id
\*   todo   the tracked messages the loop has yet to fetch
\*   cur    the message fetch_message returned (line 947) and whose
\*          r.users() (line 950) is awaited
\*   held   (observation) the other tracked messages on which the user has
\*          held the marker ever since the handler began
\*   failed (observation) a call of the handler has raised
RremIdle == [pc |-> "idle", user |-> NoUser, msg |-> NoMsg, todo |-> {},
             cur |-> NoMsg, held |-> {}, failed |-> FALSE]

\* the users who put and take markers
Reactors == {1, 2}

\* a user puts the marker on a message of the registration channel
EnvReact ==
    /\ ops > 0
    /\ ops' = ops - 1
    /\ \E u \in Reactors \cap members, m \in msgs :
         /\ u \notin reactions[m]
         /\ reactions' = [reactions EXCEPT ![m] = @ \cup {u}]
         /\ rxn' = rxn \cup {[kind |-> "add", user |-> u, msg |-> m]}
    /\ UNCHANGED <<members, msgs, botVars, regVars, voiceVars, evStatus,
                   lifeRest, tickVars, radd, rrem>>

\* a user takes the marker off a message
EnvUnreact ==
    /\ ops > 0
    /\ ops' = ops - 1
    /\ \E u \in Reactors, m \in msgs :
         /\ u \in reactions[m]
         /\ reactions' = [reactions EXCEPT ![m] = @ \ {u}]
         /\ rxn' = rxn \cup {[kind |-> "remove", user |-> u, msg |-> m]}
         /\ rrem' = IF rrem.user = u THEN [rrem EXCEPT !.held = @ \ {m}]
                                     ELSE rrem
    /\ UNCHANGED <<members, msgs, botVars, regVars, voiceVars, evStatus,
                   lifeRest, tickVars, radd>>

\* lines 910-922: the handler returns, or calls add_roles
on_raw_reaction_add ==
    /\ radd.pc = "idle"
    /\ \E e \in rxn :
         /\ e.kind = "add"
         /\ rxn' = rxn \ {e}
         /\ radd' = IF /\ e.msg \in get_all_message_ids(data)
                       /\ e.user \in members
                       /\ NotBot(e.user)
                    THEN [radd EXCEPT !.pc = "add_roles", !.user = e.user]
                    ELSE radd
    /\ UNCHANGED <<guildVars, botVars, regVars, voiceVars, evStatus, ops,
                   lifeRest, tickVars, rrem>>

on_raw_reaction_add_return_active ==
    /\ radd.pc = "add_roles"
    /\ \/ /\ radd.user \in members
          /\ registered' = registered \cup {radd.user}
          /\ active' = active \cup {radd.user}
          /\ radd' = [radd EXCEPT !.pc = "idle", !.user = NoUser]
       \/ /\ UNCHANGED <<registered, active>>
          /\ radd' = [RaddIdle EXCEPT !.failed = TRUE]
    /\ UNCHANGED <<guildVars, botVars, sync, ready, obsVars, voiceEnv,
                   spectator, vc, evStatus, ops, lifeRest, tickVars, rxn,
                   rrem>>

\* line 922: add_roles returned, or raised out of the handler
on_raw_reaction_add_return ==
    /\ radd.pc = "add_roles"
    /\ \/ /\ radd.user \in members
          /\ registered' = registered \cup {radd.user}
          /\ radd' = [radd EXCEPT !.pc = "idle", !.user = NoUser]
       \/ /\ UNCHANGED registered
          /\ radd' = [RaddIdle EXCEPT !.failed = TRUE]
    /\ UNCHANGED <<guildVars, botVars, sync, ready, obsVars, voiceVars,
                   evStatus, ops, lifeRest, tickVars, rxn, rrem>>

StillReacted_never(u, m) == FALSE

\* lines 948-953: the user is among the holders of the marker on message m
StillReacted(u, m) == u \in reactions[m]

\* the loop of line 943 has nothing left: line 961 finds still_reacted false
\* and remove_roles is called
RremRunOn(f) ==
    IF f.pc = "fetch" /\ f.todo = {} /\ f.cur = NoMsg
    THEN [f EXCEPT !.pc = "remove"] ELSE f

\* the handler returned
RremReturn(f) ==
    [RremIdle EXCEPT !.failed = f.failed]

\* lines 926-947: the handler returns, or begins to fetch the other tracked
\* messages
on_raw_reaction_remove ==
    /\ rrem.pc = "idle"
    /\ \E e \in rxn :
         /\ e.kind = "remove"
         /\ rxn' = rxn \ {e}
         /\ LET message_ids == get_all_message_ids(data) IN
            rrem' = IF /\ e.msg \in message_ids
                       /\ e.user \in members
                       /\ NotBot(e.user)
                    THEN RremRunOn([rrem EXCEPT
                           !.pc = "fetch", !.user = e.user, !.msg = e.msg,
                           !.todo = message_ids \ {e.msg},
                           !.held = {m \in (message_ids \ {e.msg}) \cap msgs :
                                        e.user \in reactions[m]}])
                    ELSE rrem
    /\ UNCHANGED <<guildVars, botVars, regVars, voiceVars, evStatus, ops,
                   lifeRest, tickVars, radd>>

\* one await of the loop of line 943: fetch_message(msg_id) is answered
\* (line 947) and, when the message has the marker reaction, r.users() is
\* called; or r.users() is answered (lines 950-953)
on_raw_reaction_remove_fetch ==
    /\ rrem.pc = "fetch"
    /\ IF rrem.cur = NoMsg
       THEN \E m \in rrem.todo :
              LET f == [rrem EXCEPT !.todo = @ \ {m}] IN
              \/ /\ m \in msgs /\ reactions[m] # {}        \* fetched
                 /\ rrem' = [f EXCEPT !.cur = m]
              \/ /\ m \in msgs /\ reactions[m] = {}        \* no marker on it
                 /\ rrem' = RremRunOn(f)
              \/ /\ m \notin msgs                          \* discord.NotFound
                 /\ rrem' = RremRunOn(f)
              \/ rrem' = [RremIdle EXCEPT !.failed = TRUE]  \* any other error
       ELSE LET m == rrem.cur
                f == [rrem EXCEPT !.cur = NoMsg] IN
            \/ /\ m \in msgs                       \* the holders are listed
               /\ rrem' = IF StillReacted(rrem.user, m)
                          THEN RremReturn(f)       \* lines 952-961
                          ELSE RremRunOn(f)
            \/ /\ m \notin msgs                    \* discord.NotFound
               /\ rrem' = RremRunOn(f)
            \/ rrem' = [RremIdle EXCEPT !.failed = TRUE]    \* any other error
    /\ UNCHANGED <<guildVars, botVars, regVars, voiceVars, evStatus, ops,
                   lifeRest, tickVars, rxn, radd>>

\* line 962: remove_roles returned, or raised out of the handler
on_raw_reaction_remove_return ==
    /\ rrem.pc = "remove"
    /\ \/ /\ rrem.user \in members
          /\ registered' = registered \ {rrem.user}
          /\ rrem' = RremReturn(rrem)
       \/ /\ UNCHANGED registered
          /\ rrem' = [RremIdle EXCEPT !.failed = TRUE]
    /\ UNCHANGED <<guildVars, botVars, sync, ready, obsVars, voiceVars,
                   evStatus, ops, lifeRest, tickVars, rxn, radd>>

\* no poll: check_events has not been started
TickOff ==
    /\ now = 0
    /\ start_time = [e \in EventIds |-> 0]
    /\ warned_events = {}
    /\ warnings = [e \in EventIds |-> 0]
    /\ ce = CeIdle
    /\ moved = {}
    /\ rxn = {}
    /\ radd = RaddIdle
    /\ rrem = RremIdle

\* ------------------------------------------------- the lifecycle handlers
LifeInit ==
    /\ members = Everyone
    /\ msgs = {1}
    /\ reactions = [m \in MsgIds |-> IF m = 1 THEN {BotUser} ELSE {}]
    /\ registered = {}
    /\ data = [k \in {Str(1)} |-> 1]
    /\ serial = data
    /\ scrim_active \in BOOLEAN
    /\ manually_deleting = FALSE
    /\ sync = [c \in Callers |-> SyncIdle]
    /\ ready = [pc |-> "done", message_ids |-> {}, before |-> {},
               again |-> FALSE]
    /\ healed = {}
    /\ refetched = {}
    /\ voice = [u \in Everyone |-> "none"]
    /\ guild_roles = VoiceRoles
    /\ active = {}
    /\ spectator = {}
    /\ vc = [c \in VcCallers |-> VcIdle]
    /\ evStatus = [e \in EventIds |-> IF e = 1 THEN "active" ELSE "none"]
    /\ notifs = {}
    /\ msgdel = {}
    /\ nextMsg = MaxMsgs           \* one more message fits the channel
    /\ stats = EmptyDict
    /\ osu = [i \in Slots |-> OsuIdle]
    /\ del = DelIdle
    /\ can = CanIdle
    /\ cre = CreIdle
    /\ mdl = MdlIdle
    /\ upd = UpdIdle
    /\ ops = MaxOps
    /\ handled = {}
    /\ TickOff
    /\ created = {}
    /\ rekeyed = {}

LifeNext ==
    \/ EnvStart
    \/ EnvEnd
    \/ EnvRedeliver
    \/ EnvDeleteMessage
    \/ \E i \in Slots : on_scheduled_event_update(i)
    \/ \E i \in Slots : osu_create(i)
    \/ \E i \in Slots : osu_start(i)
    \/ create
    \/ create_event
    \/ create_send
    \/ create_add_reaction
    \/ on_raw_message_delete
    \/ on_raw_message_delete_return
    \/ delete
    \/ delete_send
    \/ delete_fetch_events
    \/ delete_sync_return
    \/ delete_fetch_msg
    \/ delete_delete_msg
    \/ delete_history
    \/ delete_clear
    \/ delete_end
    \/ delete_ended
    \/ cancel
    \/ cancel_fetch_events
    \/ cancel_cancel
    \/ cancel_fetch_msg
    \/ cancel_delete_msg
    \/ cancel_return
    \/ event_update
    \/ event_send
    \/ event_stats
    \/ event_activate
    \/ \E c \in {"delete", "cancel", "on_raw_message_delete", "event"} :
          get_all_reacted_ids(c)

SpecLife == LifeInit /\ [][LifeNext]_vars

\* the same commands and handlers, begun with a second tracked event: the
\* event 1 is active, the event 2 was created with r!create meanwhile and
\* is scheduled
TwoInit ==
    /\ members = Everyone
    /\ msgs = {1, 2}
    /\ reactions = [m \in MsgIds |-> IF m \in {1, 2} THEN {BotUser} ELSE {}]
    /\ registered = {}
    /\ data = [k \in {Str(1), Str(2)} |-> k[2]]
    /\ serial = data
    /\ scrim_active \in BOOLEAN
    /\ manually_deleting = FALSE
    /\ sync = [c \in Callers |-> SyncIdle]
    /\ ready = [pc |-> "done", message_ids |-> {}, before |-> {},
               again |-> FALSE]
    /\ healed = {}
    /\ refetched = {}
    /\ voice = [u \in Everyone |-> "none"]
    /\ guild_roles = VoiceRoles
    /\ active = {}
    /\ spectator = {}
    /\ vc = [c \in VcCallers |-> VcIdle]
    /\ evStatus = [e \in EventIds |-> IF e = 1 THEN "active"
                                  ELSE IF e = 2 THEN "scheduled" ELSE "none"]
    /\ notifs = {}
    /\ msgdel = {}
    /\ nextMsg = 3
    /\ stats = EmptyDict
    /\ osu = [i \in Slots |-> OsuIdle]
    /\ del = DelIdle
    /\ can = CanIdle
    /\ cre = CreIdle
    /\ mdl = MdlIdle
    /\ upd = UpdIdle
    /\ ops = MaxOps
    /\ handled = {}
    /\ TickOff
    /\ created = {}
    /\ rekeyed = {}

\* no further r!create is run
TwoNext ==
    \/ EnvStart
    \/ EnvEnd
    \/ EnvRedeliver
    \/ EnvDeleteMessage
    \/ \E i \in Slots : on_scheduled_event_update(i)
    \/ \E i \in Slots : osu_create(i)
    \/ \E i \in Slots : osu_start(i)
    \/ on_raw_message_delete
    \/ on_raw_message_delete_return
    \/ delete
    \/ delete_send
    \/ delete_fetch_events
    \/ delete_sync_return
    \/ delete_fetch_msg
    \/ delete_delete_msg
    \/ delete_history
    \/ delete_clear
    \/ delete_end
    \/ delete_ended
    \/ cancel
    \/ cancel_fetch_events
    \/ cancel_cancel
    \/ cancel_fetch_msg
    \/ cancel_delete_msg
    \/ cancel_return
    \/ event_update
    \/ event_send
    \/ event_stats
    \/ event_activate
    \/ \E c \in {"delete", "cancel", "on_raw_message_delete", "event"} :
          get_all_reacted_ids(c)

SpecTwo == TwoInit /\ [][TwoNext]_vars

\* ------------------------------------------------- the registration pass alone
\* two tracked signup messages, 1 and 2, of the events 1 and 2
SyncData == [k \in {Str(1), Str(2)} |-> k[2]]

SyncInit ==
    /\ msgs \in SUBSET Range(SyncData)
    /\ reactions \in [MsgIds -> SUBSET Everyone]
    /\ \A m \in MsgIds : IF m \in msgs THEN BotUser \in reactions[m]
                                       ELSE reactions[m] = {}
    /\ members \in SUBSET Everyone
    /\ BotUser \in members
    /\ registered \in SUBSET members
    /\ data = SyncData
    /\ scrim_active = FALSE
    /\ manually_deleting = FALSE
    /\ sync = [c \in Callers |-> SyncIdle]
    /\ ready = [pc |-> "idle", message_ids |-> {}, before |-> {},
               again |-> FALSE]
    /\ healed = {}
    /\ refetched = {}
    /\ voice = [u \in Everyone |-> "none"]
    /\ guild_roles = VoiceRoles
    /\ active = {}
    /\ spectator = {}
    /\ vc = [c \in VcCallers |-> VcIdle]
    /\ evStatus = [e \in EventIds |-> "none"]
    /\ notifs = {}
    /\ msgdel = {}
    /\ nextMsg = 3
    /\ stats = EmptyDict
    /\ osu = [i \in Slots |-> OsuIdle]
    /\ del = DelIdle
    /\ can = CanIdle
    /\ cre = CreIdle
    /\ mdl = MdlIdle
    /\ upd = UpdIdle
    /\ ops = 0
    /\ handled = {}
    /\ TickOff
    /\ created = {}
    /\ rekeyed = {}
    /\ serial = data

SyncNext ==
    \/ on_ready
    \/ get_all_reacted_ids("on_ready")
    \/ sync_roles_add("on_ready")
    \/ sync_roles_remove("on_ready")
    \/ on_ready_return

SpecSync == SyncInit /\ [][SyncNext]_vars

\* ------------------------------------------- the deletion of signup messages
\* the messages 1 and 2 exist and the map tracks both, or the message 1
\* alone; the users 1 and 2 may hold the marker and the role, and the user 1
\* may have left the guild
GoneInit ==
    /\ msgs = Range(SyncData)
    /\ reactions \in [MsgIds -> SUBSET (Reactors \cup Bots)]
    /\ \A m \in MsgIds : IF m \in msgs THEN BotUser \in reactions[m]
                                       ELSE reactions[m] = {}
    /\ members \in {Everyone, Everyone \ {1}}
    /\ registered \in SUBSET (Reactors \cap members)
    /\ data \in {SyncData, [k \in {Str(1)} |-> 1]}
    /\ scrim_active = FALSE
    /\ manually_deleting = FALSE
    /\ sync = [c \in Callers |-> SyncIdle]
    /\ ready = [pc |-> "done", message_ids |-> {}, before |-> {},
               again |-> FALSE]
    /\ healed = {}
    /\ refetched = {}
    /\ voice = [u \in Everyone |-> "none"]
    /\ guild_roles = VoiceRoles
    /\ active = {}
    /\ spectator = {}
    /\ vc = [c \in VcCallers |-> VcIdle]
    /\ evStatus = [e \in EventIds |-> "none"]
    /\ notifs = {}
    /\ msgdel = {}
    /\ nextMsg = 3
    /\ stats = EmptyDict
    /\ osu = [i \in Slots |-> OsuIdle]
    /\ del = DelIdle
    /\ can = CanIdle
    /\ cre = CreIdle
    /\ mdl = MdlIdle
    /\ upd = UpdIdle
    /\ ops = MaxOps
    /\ handled = {}
    /\ TickOff
    /\ created = {}
    /\ rekeyed = {}
    /\ serial = data

GoneNext ==
    \/ EnvDeleteMessage
    \/ on_raw_message_delete
    \/ get_all_reacted_ids("on_raw_message_delete")
    \/ sync_roles_add("on_raw_message_delete")
    \/ sync_roles_remove("on_raw_message_delete")
    \/ on_raw_message_delete_return

SpecGone == GoneInit /\ [][GoneNext]_vars

\* ------------------------------------------------------ the voice pass alone
MaxVoice == 2       \* the users 1..MaxVoice may be in a voice channel
VoiceUsers == {u \in Users : u <= MaxVoice} \cup Bots

VoiceInit ==
    /\ members = Everyone
    /\ reactions = [m \in MsgIds |-> {}]
    /\ msgs = {}
    /\ registered = {}
    /\ data = EmptyDict
    /\ scrim_active \in BOOLEAN
    /\ manually_deleting = FALSE
    /\ sync = [c \in Callers |-> SyncIdle]
    /\ ready = [pc |-> "done", message_ids |-> {}, before |-> {},
               again |-> FALSE]
    /\ healed = {}
    /\ refetched = {}
    /\ voice \in [Everyone -> Places]
    /\ \A u \in Everyone \ VoiceUsers : voice[u] = "none"
    /\ guild_roles \in SUBSET VoiceRoles
    /\ active \in SUBSET VoiceUsers
    /\ spectator \in SUBSET VoiceUsers
    /\ "ACTIVE_ROLE_ID" \notin guild_roles => active = {}
    /\ "SPECTATOR_ROLE_ID" \notin guild_roles => spectator = {}
    /\ vc = [c \in VcCallers |-> VcIdle]
    /\ evStatus = [e \in EventIds |-> "none"]
    /\ notifs = {}
    /\ msgdel = {}
    /\ nextMsg = 1
    /\ stats = EmptyDict
    /\ osu = [i \in Slots |-> OsuIdle]
    /\ del = DelIdle
    /\ can = CanIdle
    /\ cre = CreIdle
    /\ mdl = MdlIdle
    /\ upd = UpdIdle
    /\ ops = 0
    /\ handled = {}
    /\ TickOff
    /\ created = {}
    /\ rekeyed = {}
    /\ serial = data

VoiceNext ==
    \/ scrim_vc_check
    \/ update_scrim_vc_roles("scrim_vc_check")

SpecVoice == VoiceInit /\ [][VoiceNext]_vars

\* ------------------------------------------------------ the attendance counts
\* a member joins, changes or leaves a voice channel
EnvVoice ==
    /\ ops > 0
    /\ ops' = ops - 1
    /\ \E u \in Reactors, p \in Places :
         /\ voice[u] # p
         /\ voice' = [voice EXCEPT ![u] = p]
    /\ UNCHANGED <<guildVars, botVars, regVars, guild_roles, active, spectator,
                   vc, evStatus, lifeRest, tickVars, reactVars>>

\* the messages 1 and 2 are tracked; the user 1 may hold the marker and sit
\* in a voice channel; nobody has a count yet
StatsInit ==
    /\ members = Everyone
    /\ msgs = Range(SyncData)
    /\ reactions \in [MsgIds -> SUBSET ({1} \cup Bots)]
    /\ \A m \in MsgIds : IF m \in msgs THEN BotUser \in reactions[m]
                                       ELSE reactions[m] = {}
    /\ registered = {}
    /\ data = SyncData
    /\ scrim_active = FALSE
    /\ manually_deleting = FALSE
    /\ sync = [c \in Callers |-> SyncIdle]
    /\ ready = [pc |-> "done", message_ids |-> {}, before |-> {},
               again |-> FALSE]
    /\ healed = {}
    /\ refetched = {}
    /\ voice \in [Everyone -> Places]
    /\ \A u \in Everyone \ {1} : voice[u] = "none"
    /\ guild_roles = VoiceRoles
    /\ active = {}
    /\ spectator = {}
    /\ vc = [c \in VcCallers |-> VcIdle]
    /\ evStatus = [e \in EventIds |-> "none"]
    /\ notifs = {}
    /\ msgdel = {}
    /\ nextMsg = 3
    /\ stats = EmptyDict
    /\ osu = [i \in Slots |-> OsuIdle]
    /\ del = DelIdle
    /\ can = CanIdle
    /\ cre = CreIdle
    /\ mdl = MdlIdle
    /\ upd = UpdIdle
    /\ ops = MaxOps
    /\ handled = {}
    /\ TickOff
    /\ created = {}
    /\ rekeyed = {}
    /\ serial = data

StatsNext ==
    \/ EnvReact
    \/ EnvUnreact
    \/ EnvVoice
    \/ event_update
    \/ event_send
    \/ get_all_reacted_ids("event")
    \/ event_stats
    \/ update_scrim_vc_roles("event")
    \/ event_activate

SpecStats == StatsInit /\ [][StatsNext]_vars

\* ------------------------------------------- delete beside the voice pass
\* a scrim is running: the event 1 is active and tracked, scrim_active is
\* set, the users 1 and 2 may sit in a voice channel and hold one of the two
\* voice roles
StaleInit ==
    /\ members = Everyone
    /\ msgs = {1}
    /\ reactions = [m \in MsgIds |-> IF m = 1 THEN {BotUser} ELSE {}]
    /\ registered = {}
    /\ data = [k \in {Str(1)} |-> 1]
    /\ serial = data
    /\ scrim_active = TRUE
    /\ manually_deleting = FALSE
    /\ sync = [c \in Callers |-> SyncIdle]
    /\ ready = [pc |-> "done", message_ids |-> {}, before |-> {},
               again |-> FALSE]
    /\ healed = {}
    /\ refetched = {}
    /\ voice \in [Everyone -> Places]
    /\ \A u \in Everyone \ Reactors : voice[u] = "none"
    /\ guild_roles = VoiceRoles
    /\ active \in SUBSET Reactors
    /\ spectator \in SUBSET (Reactors \ active)
    /\ vc = [c \in VcCallers |-> VcIdle]
    /\ evStatus = [e \in EventIds |-> IF e = 1 THEN "active" ELSE "none"]
    /\ notifs = {}
    /\ msgdel = {}
    /\ nextMsg = 2
    /\ stats = EmptyDict
    /\ osu = [i \in Slots |-> OsuIdle]
    /\ del = DelIdle
    /\ can = CanIdle
    /\ cre = CreIdle
    /\ mdl = MdlIdle
    /\ upd = UpdIdle
    /\ ops = 1
    /\ handled = {}
    /\ TickOff
    /\ created = {}
    /\ rekeyed = {}

\* one delete command and the ticks of scrim_vc_check; no event update
StaleNext ==
    \/ scrim_vc_check
    \/ update_scrim_vc_roles("scrim_vc_check")
    \/ delete
    \/ delete_send
    \/ delete_fetch_events
    \/ delete_remove_active
    \/ delete_remove_spectator
    \/ get_all_reacted_ids("delete")
    \/ delete_sync_return
    \/ delete_fetch_msg
    \/ delete_delete_msg
    \/ delete_history
    \/ delete_clear
    \/ delete_end
    \/ delete_ended

SpecStale == StaleInit /\ [][StaleNext]_vars

\* the same with the registration side: the messages 1 and 2 are tracked,
\* the user 1 holds the marker on the first, the user 2 holds the role
\* ROLE_ID, and a behaviour has one delete command or one marker put or
\* taken beside the ticks of the voice pass.  The user 1 has moved to the
\* meeting channel and the user 2 out of it since the roles were given, the
\* user 3 has left the voice channels
FrameInit ==
    /\ members = Everyone
    /\ msgs = Range(SyncData)
    /\ reactions = [m \in MsgIds |-> IF m = 1 THEN {BotUser, 1} ELSE
                                     IF m \in msgs THEN {BotUser} ELSE {}]
    /\ registered = {2}
    /\ data = SyncData
    /\ serial = data
    /\ scrim_active = TRUE
    /\ manually_deleting = FALSE
    /\ sync = [c \in Callers |-> SyncIdle]
    /\ ready = [pc |-> "done", message_ids |-> {}, before |-> {},
               again |-> FALSE]
    /\ healed = {}
    /\ refetched = {}
    /\ voice = [u \in Everyone |-> IF u = 1 THEN "meeting" ELSE
                              IF u = 2 THEN "other" ELSE "none"]
    /\ guild_roles = VoiceRoles
    /\ active \in {{1}, {1, 3}}
    /\ spectator \in {{2}, {2, 3}}
    /\ active \cap spectator = {}
    /\ vc = [c \in VcCallers |-> VcIdle]
    /\ evStatus = [e \in EventIds |-> IF e = 1 THEN "active" ELSE "none"]
    /\ notifs = {}
    /\ msgdel = {}
    /\ nextMsg = 3
    /\ stats = EmptyDict
    /\ osu = [i \in Slots |-> OsuIdle]
    /\ del = DelIdle
    /\ can = CanIdle
    /\ cre = CreIdle
    /\ mdl = MdlIdle
    /\ upd = UpdIdle
    /\ ops = 1
    /\ handled = {}
    /\ TickOff
    /\ created = {}
    /\ rekeyed = {}

FrameNext ==
    \/ StaleNext
    \/ sync_roles_add("delete")
    \/ sync_roles_remove("delete")
    \/ EnvReact
    \/ EnvUnreact
    \/ on_raw_reaction_add
    \/ on_raw_reaction_add_return
    \/ on_raw_reaction_remove
    \/ on_raw_reaction_remove_fetch
    \/ on_raw_reaction_remove_return

SpecFrame == FrameInit /\ [][FrameNext]_vars


\* ------------------------------------------------------------ the poll alone
\* the start times, in seconds after the first tick, of the events 1 and 2
StartTimes == {120, 1790, 1800, 1850, 1860}

TickInit ==
    /\ members = Everyone
    /\ reactions = [m \in MsgIds |-> {}]
    /\ msgs = {}
    /\ registered = {}
    /\ data = EmptyDict
    /\ scrim_active = FALSE
    /\ manually_deleting = FALSE
    /\ sync = [c \in Callers |-> SyncIdle]
    /\ ready = [pc |-> "done", message_ids |-> {}, before |-> {},
               again |-> FALSE]
    /\ healed = {}
    /\ refetched = {}
    /\ voice = [u \in Everyone |-> "none"]
    /\ guild_roles = VoiceRoles
    /\ active = {}
    /\ spectator = {}
    /\ vc = [c \in VcCallers |-> VcIdle]
    /\ evStatus = [e \in EventIds |-> IF e \in {1, 2} THEN "scheduled"
                                                    ELSE "none"]
    /\ notifs = {}
    /\ msgdel = {}
    /\ nextMsg = 1
    /\ stats = EmptyDict
    /\ osu = [i \in Slots |-> OsuIdle]
    /\ del = DelIdle
    /\ can = CanIdle
    /\ cre = CreIdle
    /\ mdl = MdlIdle
    /\ upd = UpdIdle
    /\ ops = MaxMoves
    /\ handled = {}
    /\ created = {}
    /\ rekeyed = {}
    /\ serial = data
    /\ now = 0
    /\ start_time \in [EventIds -> StartTimes \cup {0}]
    /\ \A e \in EventIds : start_time[e] = 0 <=> evStatus[e] = "none"
    /\ start_time[1] <= start_time[2]
    /\ warned_events = {}
    /\ warnings = [e \in EventIds |-> 0]
    /\ ce = CeIdle
    /\ moved = {}
    /\ rxn = {}
    /\ radd = RaddIdle
    /\ rrem = RremIdle

TickNext ==
    \/ EnvReschedule
    \/ EnvStart
    \/ check_events
    \/ check_events_skipped
    \/ check_events_fetch
    \/ check_events_event
    \/ check_events_warn
    \/ check_events_start
    \/ check_events_announce

SpecTick == TickInit /\ [][TickNext]_vars


\* ------------------------------------ the registration pass and the reactions
\* the map tracks the messages 1 and 2, each of which may have been deleted
\* unnoticed; the user 1 may hold the marker on those that exist; the role
\* is held by those who hold the marker
ReactInit ==
    /\ members = Everyone
    /\ msgs \in SUBSET Range(SyncData)
    /\ reactions \in [MsgIds -> SUBSET ({1} \cup Bots)]
    /\ \A m \in MsgIds : IF m \in msgs THEN BotUser \in reactions[m]
                                       ELSE reactions[m] = {}
    /\ registered = {u \in Users : \E m \in msgs : u \in reactions[m]}
    /\ data = SyncData
    /\ scrim_active = FALSE
    /\ manually_deleting = FALSE
    /\ sync = [c \in Callers |-> SyncIdle]
    /\ ready = [pc |-> "idle", message_ids |-> {}, before |-> {},
               again |-> FALSE]
    /\ healed = {}
    /\ refetched = {}
    /\ voice = [u \in Everyone |-> "none"]
    /\ guild_roles = VoiceRoles
    /\ active = {}
    /\ spectator = {}
    /\ vc = [c \in VcCallers |-> VcIdle]
    /\ evStatus = [e \in EventIds |-> "none"]
    /\ notifs = {}
    /\ msgdel = {}
    /\ nextMsg = 3
    /\ stats = EmptyDict
    /\ osu = [i \in Slots |-> OsuIdle]
    /\ del = DelIdle
    /\ can = CanIdle
    /\ cre = CreIdle
    /\ mdl = MdlIdle
    /\ upd = UpdIdle
    /\ ops = MaxReacts
    /\ handled = {}
    /\ created = {}
    /\ rekeyed = {}
    /\ serial = data
    /\ TickOff

ReactNext ==
    \/ EnvReact
    \/ EnvUnreact
    \/ on_raw_reaction_add
    \/ on_raw_reaction_add_return
    \/ on_raw_reaction_remove
    \/ on_raw_reaction_remove_fetch
    \/ on_raw_reaction_remove_return
    \/ on_ready
    \/ get_all_reacted_ids("on_ready")
    \/ sync_roles_add("on_ready")
    \/ sync_roles_remove("on_ready")
    \/ on_ready_return

SpecReact == ReactInit /\ [][ReactNext]_vars

\* ---------------------------------------------------------------- claims
\* the users, bots excluded, that hold the marker on a tracked message
\* that exists
MarkerHolders ==
    {u \in Users : \E m \in Range(data) \cap msgs : u \in reactions[m]}

\* C1 as stated: after a completed pass of get_all_reacted_ids and sync_roles
\* the holders of the Registered role are exactly the non-bot users holding
\* the marker on a tracked message.
C1_ConvergenceAsStated ==
    ready.pc = "done" => registered = MarkerHolders

\* C1 as amended: after a completed pass the holders of the Registered role
\* are exactly the non-bot users that hold the marker on a tracked message
\* and are members of the guild (a reactor that left the guild gets no role).
C1_Convergence ==
    ready.pc = "done" => registered = MarkerHolders \cap members

\* reactions {1,2}, holders {2,3}: after the pass 1 gained and 3 lost the role
C1_Witness ==
    /\ ready.pc = "done"
    /\ MarkerHolders = {1, 2}
    /\ ready.before = {2, 3}
    /\ registered = {1, 2}

\* C7: a tracked message id whose message no longer exists is removed from
\* the session map by the pass that found it missing, and no later pass
\* fetches it again.
C7_SelfHealing ==
    \A m \in healed : m \notin Range(data) /\ m \notin refetched

\* C8: when one add_roles or remove_roles call of a sync_roles pass fails,
\* every other member of the desired set still holds the role and every other
\* stale holder has lost it once the pass has ended.
C8_FailureIsolation ==
    LET s == sync["on_ready"] IN
    (ready.pc = "raised" /\ s.exc \in {"add_roles", "remove_roles"}) =>
        \A u \in members \ {s.excUser} :
            /\ u \in s.reacted_ids => u \in registered
            /\ u \notin s.reacted_ids => u \notin registered

\* C2: while manually_deleting is true, a notification of an ended event
\* makes on_scheduled_event_update create no event and leaves the session
\* map unchanged, whatever scrim_active and the map are.
C2_ResurrectionGuard ==
    [][\A n \in notifs \ notifs' :
          (manually_deleting /\ n.status \in Ended) =>
              /\ osu' = osu
              /\ data' = data
              /\ evStatus' = evStatus
              /\ created' = created]_vars

\* an ended notification of a tracked event arrived while scrim_active and
\* manually_deleting were both true, and nothing was restarted
C2_Witness ==
    \E h \in handled :
        /\ h.deleting /\ h.status \in Ended /\ h.tracked /\ h.active
        /\ ~h.restarted
        /\ created = {}

\* the handler run of slot i saved the re-keyed map in this step
OsuSaved(i) ==
    osu[i].pc = "start" /\ osu'[i].pc = "idle" /\ rekeyed' # rekeyed

\* C3: when on_scheduled_event_update restarts an ended tracked event (the
\* notification passed the guards of lines 380-394, create_scheduled_event
\* and start succeeded, and no other restart has taken place), its save
\* leaves the session map re-keyed: the new event id is a key, the old event
\* id is no longer a key, and every other entry of the map is what it was
\* before the save.
C3_Resurrection ==
    [][\A i \in Slots :
          (OsuSaved(i) /\ created = {osu[i].new_event}) =>
             LET old == Str(osu[i].after)
                 new == Str(osu[i].new_event) IN
             /\ new \in DOMAIN data'
             /\ old \notin DOMAIN data'
             /\ \A k \in DOMAIN data \ {old} :
                   k \in DOMAIN data' /\ data'[k] = data[k]
             /\ \A k \in DOMAIN data' \ {new} :
                   k \in DOMAIN data /\ data'[k] = data[k]]_vars

\* C4: manually_deleting is true while delete tears down, and false again
\* whenever delete has terminated, on the success path and on every error
\* exit path.
C4_FlagLifecycle ==
    /\ del.pc \notin Terminal => manually_deleting
    /\ del.pc \in {"done", "raised"} => ~manually_deleting

\* C5: while a delete is in progress (the flag is set and not yet cleared)
\* on_scheduled_event_update creates no event and writes no re-keyed map,
\* also when it passed its guards before delete began.
C5_MutualExclusion ==
    [][(del.pc \notin Terminal /\ manually_deleting) =>
          (created' = created /\ rekeyed' = rekeyed)]_vars

\* C10: the session map always equals the result of applying the updates of
\* the handlers one after the other, in the order of their saves: no handler
\* writes back a map it loaded before another handler's write.
C10_ExclusiveCycles == data = serial

\* C6: when update_scrim_vc_roles has completed without error (both roles
\* exist and no add_roles or remove_roles call of the pass failed), whatever
\* the voice channels and the holders of the two roles were, every non-bot
\* member in the meeting channel holds Spectator and not Active, every
\* non-bot member in another voice channel holds Active and not Spectator,
\* and every member in no voice channel holds neither.
C6_Partition ==
    LET f == vc["scrim_vc_check"] IN
    (f.pc = "done" /\ VoiceRoles \subseteq guild_roles /\ scrim_active
        /\ f.failed = {}) =>
        \A u \in members :
            /\ (voice[u] = "meeting" /\ NotBot(u)) =>
                  (u \in spectator /\ u \notin active)
            /\ (voice[u] = "other" /\ NotBot(u)) =>
                  (u \in active /\ u \notin spectator)
            /\ voice[u] = "none" => (u \notin active /\ u \notin spectator)

\* 1 sits in the meeting channel and held Active only, 2 sits in another
\* channel and held Spectator only, the member BotUser is in no voice channel
\* and held both; the pass gave 1 Spectator, 2 Active, and took the rest away
C6_Witness ==
    LET f == vc["scrim_vc_check"] IN
    /\ f.pc = "done" /\ f.failed = {}
    /\ voice[1] = "meeting" /\ voice[2] = "other" /\ voice[BotUser] = "none"
    /\ f.before_active = {1, BotUser}
    /\ f.before_spectator = {2, BotUser}
    /\ spectator = {1}
    /\ active = {2}

\* C9: in one process run an event gets the 30-minute warning at most once,
\* whatever the ticks of check_events and the moves of the event are; and an
\* event that starts 29 minutes 50 seconds after the first tick, is not moved
\* and whose warning could be sent has got exactly one warning when ten
\* one-minute ticks have returned.
C9_WarningOnce ==
    /\ \A e \in EventIds : warnings[e] <= 1
    /\ \A e \in EventIds :
          (/\ ce.pc = "idle" /\ ce.ticks = 10 /\ ce.skips = 0
           /\ start_time[e] = 1790 /\ e \notin moved /\ e \notin ce.unsent
           /\ evStatus[e] = "scheduled")
              => warnings[e] = 1

\* ten ticks have returned; the event 1, 29 minutes 50 seconds ahead at the
\* first tick, got one warning, and so did the event 2, which was in the
\* window at the first tick (1800 seconds ahead) and at the second (1740)
C9_Witness ==
    /\ ce.pc = "idle" /\ ce.ticks = 10 /\ ce.skips = 0
    /\ start_time[1] = 1790 /\ start_time[2] = 1800
    /\ moved = {} /\ ce.unsent = {}
    /\ warnings[1] = 1 /\ warnings[2] = 1
    /\ warned_events = {1, 2}

\* every reaction event has been handled and no pass or handler is running
ReactQuiet ==
    /\ rxn = {}
    /\ radd.pc = "idle"
    /\ rrem.pc = "idle"
    /\ ready.pc = "done"

\* C11: once a full pass and the reaction handlers that overlapped it have
\* all finished (none of their calls failed) and no reaction event is
\* pending, the holders of the Registered role are exactly the non-bot users
\* that hold the marker on a tracked message.
C11_OverlapConverges ==
    (ReactQuiet /\ ~radd.failed /\ ~rrem.failed) => registered = MarkerHolders

\* C12: a pass of get_all_reacted_ids and sync_roles that begins right after
\* a completed pass, with reactions, members and tracked messages unchanged,
\* calls neither add_roles nor remove_roles.
C12_Idempotence ==
    ready.again => ~sync["on_ready"].called

\* a pass over the reactions of 1 and 2 began right after a completed pass,
\* with 1 and 2 holding the role, and has completed without a call
C12_Witness ==
    /\ ready.again
    /\ ready.pc = "done"
    /\ sync["on_ready"].reacted_ids = {1, 2}
    /\ ready.before = {1, 2}
    /\ registered = {1, 2}
    /\ 3 \in members

\* C13: on_raw_reaction_remove calls remove_roles for a user only if the user
\* holds the marker on no other tracked message; a user that has held the
\* marker on another tracked message throughout the handler keeps the role.
C13_UnionOnUnreact ==
    /\ [](rrem.pc = "remove" => rrem.held = {})
    /\ [][(rrem.pc # "idle" /\ rrem.held # {} /\ rrem'.pc # rrem.pc)
             => registered' = registered]_vars

\* 1 took the marker off message 1 and still holds it on message 2: the
\* handler has fetched message 2 and returned, and 1 holds the role
C13_Witness ==
    /\ rxn = {}
    /\ rrem.pc = "idle" /\ ~rrem.failed
    /\ ops = MaxReacts - 1
    /\ 1 \notin reactions[1]
    /\ 1 \in reactions[2]
    /\ 1 \in registered
    /\ ready.pc = "idle"

\* the roles the voice channel of u requires: Spectator alone in the meeting
\* channel, Active alone in another channel, neither in none (for a bot:
\* neither, wherever it is)
VoiceClassOk(u) ==
    /\ (voice[u] = "meeting" /\ NotBot(u)) =>
          (u \in spectator /\ u \notin active)
    /\ (voice[u] = "other" /\ NotBot(u)) =>
          (u \in active /\ u \notin spectator)
    /\ (voice[u] = "none" \/ ~NotBot(u)) =>
          (u \notin active /\ u \notin spectator)

\* C14: a pass of update_scrim_vc_roles in which add_roles or remove_roles
\* calls failed still runs to its end, and every member for whom no call
\* failed ends with the roles its voice channel requires.
C14_VoiceIsolation ==
    LET f == vc["scrim_vc_check"] IN
    (f.pc = "done" /\ VoiceRoles \subseteq guild_roles /\ scrim_active) =>
        \A u \in members \ f.failed : VoiceClassOk(u)

\* a call for 1 failed (1 sits in the meeting channel and is still without
\* Spectator); 2, in another channel, lost Spectator and gained Active
C14_Witness ==
    LET f == vc["scrim_vc_check"] IN
    /\ f.pc = "done" /\ f.failed = {1}
    /\ voice[1] = "meeting" /\ 1 \notin spectator
    /\ voice[2] = "other"
    /\ f.before_active = {} /\ f.before_spectator = {2}
    /\ active = {2} /\ spectator = {}

\* C15: no step leads from a state in which no member holds both Active and
\* Spectator to a state in which some member holds both.
C15_Exclusive ==
    [][(active \cap spectator = {}) => (active' \cap spectator' = {})]_vars

\* C20: the holders of Active and Spectator change only while a pass is
\* running that a tick of scrim_vc_check began with scrim_active true; a tick
\* that finds scrim_active false returns and changes no holder.
C20_Gated ==
    [][/\ (active' # active \/ spectator' # spectator) =>
             (scrim_active /\ vc["scrim_vc_check"].pc \notin {"idle", "done"})
       /\ vc'["scrim_vc_check"].skipped =>
             (active' = active /\ spectator' = spectator)]_vars

\* a tick found scrim_active false and returned: 1 sits in the meeting
\* channel and still holds Active and not Spectator
C20_Witness ==
    /\ ~scrim_active
    /\ vc["scrim_vc_check"].skipped
    /\ voice[1] = "meeting"
    /\ active = {1}
    /\ spectator = {}

\* the tracked events the scheduler still lists
LiveSessions ==
    {e \in EventIds : Str(e) \in DOMAIN data /\ evStatus[e] \in {"scheduled", "active"}}

\* C16: at most one tracked session is scheduled or active at any time.
C16_SingleSession == Cardinality(LiveSessions) <= 1

\* C17: the notification of an event that r!cancel cancelled never makes
\* on_scheduled_event_update create an event, whatever scrim_active,
\* manually_deleting and the map hold when it is dispatched; and when r!cancel
\* gets past the deletion of the signup message, the map it saves has no entry
\* for the event and the message is gone.
C17_CancelNoResurrection ==
    /\ [](\A h \in handled : h.status = "canceled" => ~h.restarted)
    /\ [][\A n \in notifs \ notifs' :
             n.status = "canceled" =>
                 /\ osu' = osu
                 /\ data' = data
                 /\ evStatus' = evStatus
                 /\ created' = created]_vars
    /\ [][(can.pc \in {"fetch_msg", "delete_msg"} /\ can'.pc = "sync") =>
             /\ Str(can.event_id) \notin DOMAIN data'
             /\ can.data[Str(can.event_id)] \notin msgs']_vars

\* r!cancel has returned; the notification of the cancelled event was
\* dispatched while the event was tracked, scrim_active was true and
\* manually_deleting false; nothing was created, the entry and the message
\* are gone
C17_Witness ==
    /\ can.pc = "done"
    /\ created = {}
    /\ msgdel # {}
    /\ \E h \in handled :
          /\ h.status = "canceled" /\ h.tracked /\ h.active /\ ~h.deleting
          /\ ~h.restarted
          /\ evStatus[h.id] = "canceled"
          /\ Str(h.id) \notin DOMAIN data

\* C18: a tick that visits an event it fetched as scheduled, with a start
\* time reached or passed by at most 60 seconds, calls event.start(); when no
\* tick was lost and no call raised, every unmoved event whose start time the
\* last tick had reached is active; line 348 is never called for an event a
\* call of line 348 has started; and line 348 is called only for an event
\* fetched as scheduled whose start time the tick has reached, so that an
\* unmoved event the controller started has no start time in the future.
C18_AutoStart ==
    /\ [][\A ev \in ce.todo \ ce'.todo :
             (/\ ce.pc = "loop"
              /\ ev.status = "scheduled"
              /\ ev.start_time <= ce.now
              /\ ce.now - ev.start_time <= 60)
                 => (ce'.pc = "start" /\ ce'.cur = ev)]_vars
    /\ [](\A e \in EventIds :
             (/\ ce.pc = "idle" /\ ce.skips = 0 /\ ce.ticks >= 1
              /\ e \notin moved /\ e \notin ce.unstarted
              /\ evStatus[e] # "none"
              /\ start_time[e] <= ce.now)
                 => evStatus[e] = "active")
    /\ [](ce.twice = {})
    /\ [](ce.pc = "start" =>
             /\ ce.cur.status = "scheduled"
             /\ ce.cur.start_time <= ce.now
             /\ ce.now - ce.cur.start_time <= 60)
    /\ [](\A e \in ce.started \ moved : start_time[e] <= ce.now)

\* no tick was lost; the tick 120 seconds after the first started the event 1
\* at its start time, the tick a minute later (60 seconds past the start
\* time) did not call start again, and the event 2, whose start time lies in
\* the future, is still scheduled
C18_Witness ==
    /\ ce.pc = "idle" /\ ce.skips = 0 /\ ce.now >= 180
    /\ start_time[1] = 120 /\ start_time[2] = 1860
    /\ moved = {}
    /\ ce.started = {1} /\ ce.twice = {} /\ ce.unstarted = {}
    /\ evStatus[1] = "active" /\ evStatus[2] = "scheduled"

\* C19: an unmoved event that was more than 1800 seconds ahead at the first
\* tick and is still scheduled has got exactly one warning once the ticks
\* have gone past its window, when at most one tick was lost and no warning
\* failed to be sent.
C19_SkippedTick ==
    \A e \in EventIds :
        (/\ ce.pc = "idle" /\ ce.skips <= 1
         /\ evStatus[e] = "scheduled"
         /\ e \notin moved /\ e \notin ce.unsent
         /\ start_time[e] > 1800
         /\ now - TickSeconds >= start_time[e] - 1740)
            => warnings[e] = 1

\* C25: when create_scheduled_event or new_event.start() raises inside
\* on_scheduled_event_update, the saved map is the one it was before the
\* call: nothing is written, and an entry of the ended event that the map
\* held still leads to its signup message.
C25_FailedRestartKeepsStore ==
    [][\A i \in Slots :
          (/\ osu[i].pc \in {"create", "start"}
           /\ osu'[i].pc = "idle"
           /\ rekeyed' = rekeyed)
              => /\ data' = data
                 /\ serial' = serial
                 /\ Str(osu[i].after) \in DOMAIN data =>
                       /\ Str(osu[i].after) \in DOMAIN data'
                       /\ data'[Str(osu[i].after)] = data[Str(osu[i].after)]]_vars

\* the handler of the ended event 1 created the event 2, whose start raised:
\* the handler has returned, the event 2 exists and was not started, and the
\* map still holds the entry of the event 1 alone
C25_Witness ==
    /\ \A i \in Slots : osu[i].pc = "idle"
    /\ \E h \in handled : h.id = 1 /\ h.restarted
    /\ created = {2} /\ rekeyed = {}
    /\ evStatus[2] = "scheduled"
    /\ data = [k \in {Str(1)} |-> 1]

\* C28: when r!cancel looks up an id that matches no listed event, or an
\* event that is active, it returns after its error message: the statuses of
\* the events, the map, the messages and their reactions and the holders of
\* the three roles are what they were.
C28_CancelRejects ==
    [][(/\ can.pc = "fetch_events"
        /\ can' # can
        /\ (can.event_id \notin Listed \/ evStatus[can.event_id] = "active"))
          => /\ can'.pc = "done"
             /\ evStatus' = evStatus /\ notifs' = notifs
             /\ data' = data
             /\ msgs' = msgs /\ reactions' = reactions
             /\ registered' = registered
             /\ active' = active /\ spectator' = spectator]_vars

\* r!cancel was given the id of the active tracked event 1 and turned it
\* down: the event is still active, tracked and has its message
C28_Witness ==
    /\ can.pc = "done" /\ can.rejected = 1
    /\ evStatus[1] = "active"
    /\ data = [k \in {Str(1)} |-> 1]
    /\ 1 \in msgs
    /\ notifs = {}

\* C22: two runs of on_scheduled_event_update for the same ended event never
\* both create a replacement: no two runs that wait for the start of the
\* event they created were dispatched for the same event.
C22_Idempotent ==
    \A i, j \in Slots :
        (i # j /\ osu[i].pc = "start" /\ osu[j].pc = "start")
            => osu[i].after # osu[j].after

\* C24: the ended notification of an event that r!delete ended never makes
\* on_scheduled_event_update call create_scheduled_event, whether it is
\* dispatched before or after delete has cleared manually_deleting, and also
\* when scrim_active is true again by then.
C24_DeleteNoResurrection ==
    \A h \in handled : h.id \in del.ended => ~h.restarted

\* C26: once on_raw_message_delete has handled the deletion of a tracked
\* message (its pass has ended, completed or left by a failing call, and no
\* other deletion waits), the Registered role is converged: every member of
\* the guild other than the one the failing call was for holds the role
\* exactly when it holds the marker on a remaining tracked message.
C26_Deletion ==
    LET s == sync["on_raw_message_delete"] IN
    (mdl.pc = "sync" /\ s.pc \in {"done", "raised"} /\ msgdel = {}) =>
        \A u \in (members \cap Users) \ {s.excUser} :
            u \in registered <=> u \in MarkerHolders

\* C21: no count of a member ever decreases and no entry disappears; a run
\* of r!event update raises the attended count of a member by one only, and
\* only when the reactions the run fetched list the member on a tracked
\* message and the voice channels the run read hold the member; when no
\* reaction changed since the bot started, such a member holds the marker
\* on a tracked message.
C21_Monotone ==
    /\ [][\A k \in DOMAIN stats :
             /\ k \in DOMAIN stats'
             /\ stats'[k].registered >= stats[k].registered
             /\ stats'[k].attended >= stats[k].attended]_vars
    /\ [][\A k \in DOMAIN stats' :
             LET before == IF k \in DOMAIN stats THEN stats[k].attended ELSE 0
             IN stats'[k].attended # before =>
                  /\ stats'[k].attended = before + 1
                  /\ upd.pc = "fetch"
                  /\ k[2] \in sync["event"].reacted_ids
                  /\ k[2] \in upd.members_in_meeting_point
                                \cup upd.members_in_other_vc
                  /\ k[2] \notin Bots
                  /\ rxn = {} => k[2] \in MarkerHolders]_vars

\* two runs of r!event update counted the user 1 as registered; the user was
\* in no voice channel when one of them read the channels, and attended once
C21_Witness ==
    /\ upd.pc = "done"
    /\ Str(1) \in DOMAIN stats
    /\ stats[Str(1)] = [registered |-> 2, attended |-> 1]

\* C29: every entry has 0 <= attended <= registered; a run of r!event update
\* that reaches line 739 raises registered by exactly one for every user its
\* fetch lists (every non-bot holder of the marker on a tracked message, when
\* no reaction changed since the bot started) and attended by at most one,
\* and leaves the other entries as they were.
C29_Bound ==
    /\ [](\A k \in DOMAIN stats :
             /\ 0 <= stats[k].attended
             /\ stats[k].attended <= stats[k].registered)
    /\ [][stats' # stats =>
             /\ upd.pc = "fetch"
             /\ rxn = {} => sync["event"].reacted_ids = MarkerHolders
             /\ \A u \in sync["event"].reacted_ids :
                   LET old == IF Str(u) \in DOMAIN stats THEN stats[Str(u)]
                              ELSE [registered |-> 0, attended |-> 0]
                   IN /\ stats'[Str(u)].registered = old.registered + 1
                      /\ stats'[Str(u)].attended - old.attended \in {0, 1}
             /\ \A k \in DOMAIN stats :
                   k[2] \notin sync["event"].reacted_ids => stats'[k] = stats[k]]_vars

\* two runs have counted the user 1, present both times; the user 2 put the
\* marker after the first run and was counted once, absent
C29_Witness ==
    /\ upd.pc = "done"
    /\ DOMAIN stats = {Str(1), Str(2)}
    /\ stats[Str(1)] = [registered |-> 2, attended |-> 2]
    /\ stats[Str(2)] = [registered |-> 1, attended |-> 0]
    /\ \A m \in MsgIds : BotUser \in reactions[m]

\* C23: (as stated) in every interleaving of a delete command with a pass of
\* scrim_vc_check that had seen scrim_active set, once both have returned and
\* no event update follows, nobody holds Active or Spectator.  Stated for
\* the runs in which no call of delete or of the pass raised.
C23_StaleCorrected ==
    (/\ del.pc = "done" /\ ~del.failed
     /\ vc["scrim_vc_check"].pc \in {"idle", "done"}
     /\ vc["scrim_vc_check"].failed = {}
     /\ ~scrim_active)
    => active = {} /\ spectator = {}

\* C27: a step of update_scrim_vc_roles, of scrim_vc_check, of
\* remove_active_role_all or of remove_spectator_role_all leaves the holders
\* of Registered as they are, and a step of sync_roles, of
\* on_raw_reaction_add or of on_raw_reaction_remove leaves the holders of
\* Active and of Spectator as they are.
C27_Frame ==
    /\ [][(\/ \E c \in VcCallers : update_scrim_vc_roles(c)
           \/ scrim_vc_check
           \/ delete_remove_active
           \/ delete_remove_spectator)
          => registered' = registered]_vars
    /\ [][(\/ \E c \in Callers : sync_roles_add(c) \/ sync_roles_remove(c)
           \/ on_raw_reaction_add
           \/ on_raw_reaction_add_return
           \/ on_raw_reaction_remove
           \/ on_raw_reaction_remove_fetch
           \/ on_raw_reaction_remove_return)
          => active' = active /\ spectator' = spectator]_vars

\* sync_roles of delete has given the user 1 the role Registered and taken
\* it from the user 2, and the voice pass that ran beside delete has made the
\* user 1 a holder of Spectator and the user 2 a holder of Active
C27_Witness ==
    /\ del.pc = "sync"
    /\ sync["delete"].called
    /\ vc["scrim_vc_check"].pc = "done"
    /\ vc["scrim_vc_check"].failed = {}
    /\ registered = {1}
    /\ spectator = {1}
    /\ active = {2}

====
